---- MODULE Spec2Model ----
(***************************************************************************)
(* Mask-document decoder, rasterizer, hierarchy merge and volume of the    *)
(* oa-research repository (common/masks.py, common/files.py,               *)
(* common/dictutils.py, analysis/volume.py).                               *)
(*                                                                         *)
(* A text line is modelled by what str.strip / str.split make of it: the   *)
(* sequence of its space-separated tokens, each token the sequence of its  *)
(* period-separated halves, and a flag telling whether the raw string      *)
(* carries surrounding whitespace (the newline readlines() keeps).         *)
(***************************************************************************)
EXTENDS Integers, Sequences, FiniteSets, TLC

VARIABLES
    \* read_masks_from_txt: the remaining-line queue, the header, the decoded
    \* slices, the result mapping and the position in the function
    file_lines, metadata, slices, data, pc,
    \* history: the file as read, the queue before the latest call of
    \* extract_slice_mask and what that call did
    orig_lines, prev_lines, last_ret,
    \* make_meta_for_patients: the patient folders, the position of the two
    \* loops, the visit folders make_meta_bone_masks was called on and the
    \* mask files written
    t_patients, t_idx, t_visit, t_seen, t_masks, t_pc,
    \* split_patients: the folder listing, use_first, the three weights (in
    \* hundredths), the patients list, the three counts, the result and the
    \* position in the function
    p_listing, p_use_first, p_weights, p_patients, p_num, p_result, p_pc,
    \* _extract_coordinates called on one line
    c_line, c_out, c_pc,
    \* extract_mask_metadata called on one line list
    h_lines, h_out, h_pc,
    \* draw_slice_image called on one slice
    d_slc, d_meta, d_out, d_pc,
    \* fill_mask called on one mask, and again on what it gave
    f_mask, f_once, f_twice, f_pc,
    \* volume.mask called on one array, with a voxel size and with its double
    v_arr, v_size, v_out, v_out2, v_pc,
    \* compare_volumes.main: the volume lists of the two collections, the
    \* missing sets and the combined mapping
    k_iwfs, k_dess, k_missing_iwfs, k_missing_dess, k_diff, k_pc,
    \* compare_volumes.main, Missing Data Check Two and the correlation input:
    \* the difference mapping, the BML volume lists as computed and as
    \* defaulted, the two missing sets, the count printed as usable and the
    \* (BML, difference) pair of each correlated patient
    b_diff, b_bml_read, b_bml, b_missing_bml, b_missing_preds, b_usable,
    b_pairs, b_pc,
    \* update_nested_dict: the caller's dictionary, the update, what the call gave
    u_original, u_update, u_before, u_out, u_pc,
    \* three fragments merged in both groupings: (a + b) + c and a + (b + c)
    m_a, m_b, m_c, m_left, m_right, m_pc,
    \* visit_to_volume called on one nested dictionary
    s_nested, s_out, s_pc,
    \* read_image_series: the hierarchy built so far and the one before the
    \* latest merge, the fragments merged (latest last), the files seen, and
    \* the hierarchy the latest two merges give in the other order
    g_result, g_prev, g_log, g_seen, g_swapped, g_ok

splitVars ==
    <<p_listing, p_use_first, p_weights, p_patients, p_num, p_result, p_pc>>
batchVars == <<t_patients, t_idx, t_visit, t_seen, t_masks, t_pc, splitVars>>
docVars ==
    <<file_lines, metadata, slices, data, pc, orig_lines, prev_lines, last_ret,
      batchVars>>
headerVars == <<h_lines, h_out, h_pc>>
coordVars == <<c_line, c_out, c_pc, headerVars>>
fillVars == <<f_mask, f_once, f_twice, f_pc>>
drawVars == <<d_slc, d_meta, d_out, d_pc, fillVars>>
bmlVars ==
    <<b_diff, b_bml_read, b_bml, b_missing_bml, b_missing_preds, b_usable,
      b_pairs, b_pc>>
compareVars ==
    <<k_iwfs, k_dess, k_missing_iwfs, k_missing_dess, k_diff, k_pc, bmlVars>>
volVars == <<v_arr, v_size, v_out, v_out2, v_pc, compareVars>>
mergeVars == <<m_a, m_b, m_c, m_left, m_right, m_pc>>
seriesVars == <<g_result, g_prev, g_log, g_seen, g_swapped, g_ok>>
stackVars == <<s_nested, s_out, s_pc, seriesVars>>
dictVars == <<u_original, u_update, u_before, u_out, u_pc, mergeVars, stackVars>>
vars == <<docVars, coordVars, drawVars, volVars, dictVars>>

----------------------------------------------------------------------------
(* Bounds of the model *)

MaxRaw == 2       \* raw integers written in a coordinate line are 0..MaxRaw
MaxPairs == 2     \* pair tokens per coordinate line in the decoder's inputs

----------------------------------------------------------------------------
(* Text lines *)

\* a half that int() accepts, and one it rejects
I(n) == [isInt |-> TRUE, n |-> n, w |-> ""]
W(s) == [isInt |-> FALSE, n |-> 0, w |-> s]

\* a line as readlines() gives it (nl: it still has its line break)
Line(toks) == [nl |-> TRUE, toks |-> toks]
RawLine(toks) == [nl |-> FALSE, toks |-> toks]

WordToks(s) == << <<W(s)>> >>
NumToks(n) == << <<I(n)>> >>

\* str.strip(): the content without the surrounding whitespace
strip(line) == line.toks

\* mutant: the raw string is never taken for the word
RawEqualsNever(line, s) == FALSE

\* a raw string compared with a literal word: equal only without any whitespace
RawEquals(line, s) == line.nl = FALSE /\ line.toks = WordToks(s)

\* int(s) on a stripped string: one token of one integer half
IsIntText(toks) == Len(toks) = 1 /\ Len(toks[1]) = 1 /\ toks[1][1].isInt
IntOf(toks) == toks[1][1].n

----------------------------------------------------------------------------
(* masks.py: Coordinate and _extract_coordinates *)

RowOffset == 3
ColOffset == 1

Coordinate(y, x1, x2) == [y |-> y, x1 |-> x1, x2 |-> x2]

Raised == [ok |-> FALSE, values |-> <<>>]

\* for p in pairs: x1, x2 = p.split("."); int(x1); int(x2)
PairParses(p) == Len(p) = 2 /\ p[1].isInt /\ p[2].isInt

\* mutant: the row is taken as it is written
ExtractCoordinatesNoRowOffset(toks) ==
    IF ~(Len(toks) >= 1 /\ Len(toks[1]) = 1 /\ toks[1][1].isInt) THEN Raised
    ELSE IF \E i \in 2..Len(toks) : ~PairParses(toks[i]) THEN Raised
    ELSE [ok |-> TRUE,
          values |-> [i \in 1..(Len(toks) - 1) |->
                        Coordinate(toks[1][1].n,
                                   toks[i + 1][1].n - ColOffset,
                                   toks[i + 1][2].n - ColOffset)]]

\* mutant: the pairs in front of the first one that does not parse are returned
ExtractCoordinatesKeepsParsed(toks) ==
    IF ~(Len(toks) >= 1 /\ Len(toks[1]) = 1 /\ toks[1][1].isInt) THEN Raised
    ELSE LET good == { n \in 0..(Len(toks) - 1) :
                         \A i \in 2..(n + 1) : PairParses(toks[i]) }
             last == CHOOSE n \in good : \A m \in good : m <= n
         IN  [ok |-> TRUE,
              values |-> [i \in 1..last |->
                            Coordinate(toks[1][1].n - RowOffset,
                                       toks[i + 1][1].n - ColOffset,
                                       toks[i + 1][2].n - ColOffset)]]

\* _extract_coordinates(line), line already stripped: the segments, or the
\* exception int() or the unpacking of split(".") raises
_extract_coordinates(toks) ==
    IF ~(Len(toks) >= 1 /\ Len(toks[1]) = 1 /\ toks[1][1].isInt) THEN Raised
    ELSE IF \E i \in 2..Len(toks) : ~PairParses(toks[i]) THEN Raised
    ELSE [ok |-> TRUE,
          values |-> [i \in 1..(Len(toks) - 1) |->
                        Coordinate(toks[1][1].n - RowOffset,
                                   toks[i + 1][1].n - ColOffset,
                                   toks[i + 1][2].n - ColOffset)]]

----------------------------------------------------------------------------
(* masks.py: MaskMetadata, SliceData, extract_mask_metadata, extract_slice_mask *)

MaskMetadata(name, prefix, dir, w, h, s, e) ==
    [case_name |-> name, case_prefix |-> prefix, direction |-> dir,
     image_width |-> w, image_height |-> h, start_slice |-> s, end_slice |-> e]

\* the class defaults
NoMeta == MaskMetadata(<<>>, <<>>, <<>>, 0, 0, 0, 0)

SliceData(n, cs) == [slice_number |-> n, coordinates |-> cs]

HeaderLen == 9

\* mutant: the 9th line has to be the label the format writes there
ExtractMaskMetadataChecksLabel(lines) ==
    IF \/ Len(lines) < HeaderLen
       \/ \E i \in 5..8 : ~IsIntText(strip(lines[i]))
       \/ strip(lines[9]) # WordToks("Femur")
    THEN [ok |-> FALSE, meta |-> NoMeta, lines |-> lines]
    ELSE [ok |-> TRUE,
          meta |-> MaskMetadata(strip(lines[1]), strip(lines[2]), strip(lines[3]),
                                IntOf(strip(lines[5])), IntOf(strip(lines[6])),
                                IntOf(strip(lines[7])), IntOf(strip(lines[8]))),
          lines |-> SubSeq(lines, HeaderLen + 1, Len(lines))]

\* extract_mask_metadata(lines): nine pops; int() of the 5th to 8th line.
\* ok = FALSE is the IndexError of pop(0) or the ValueError of int().
extract_mask_metadata(lines) ==
    IF Len(lines) < HeaderLen \/ \E i \in 5..8 : ~IsIntText(strip(lines[i]))
    THEN [ok |-> FALSE, meta |-> NoMeta, lines |-> lines]
    ELSE [ok |-> TRUE,
          meta |-> MaskMetadata(strip(lines[1]), strip(lines[2]), strip(lines[3]),
                                IntOf(strip(lines[5])), IntOf(strip(lines[6])),
                                IntOf(strip(lines[7])), IntOf(strip(lines[8]))),
          lines |-> SubSeq(lines, HeaderLen + 1, Len(lines))]

\* mutant: the line is put in front of the lines collected so far
CollectLineInFront(coordinate_lines, line) == <<strip(line)>> \o coordinate_lines

\* coordinate_lines.append(line.strip())
CollectLine(coordinate_lines, line) == Append(coordinate_lines, strip(line))

\* mutant: a line skipped in front of the opening bracket goes back to the
\* end of the queue
RECURSIVE ScanBlockRequeues(_, _, _)
ScanBlockRequeues(lines, found_first_bracket, coordinate_lines) ==
    IF Len(lines) = 0
    THEN [lines |-> lines, coordinate_lines |-> coordinate_lines]
    ELSE LET line == Head(lines)
             rest == Tail(lines)
         IN  IF strip(line) = WordToks("{")
             THEN ScanBlockRequeues(rest, TRUE, coordinate_lines)
             ELSE IF ~found_first_bracket
             THEN LET r == ScanBlockRequeues(rest, FALSE, coordinate_lines)
                  IN  [lines |-> Append(r.lines, line),
                       coordinate_lines |-> r.coordinate_lines]
             ELSE IF strip(line) = WordToks("}")
             THEN [lines |-> rest, coordinate_lines |-> coordinate_lines]
             ELSE ScanBlockRequeues(rest, TRUE, CollectLine(coordinate_lines, line))

\* the while loop of extract_slice_mask: pops lines until the closing bracket
\* or the end of the list; gives the queue left and the lines collected
RECURSIVE ScanBlock(_, _, _)
ScanBlock(lines, found_first_bracket, coordinate_lines) ==
    IF Len(lines) = 0
    THEN [lines |-> lines, coordinate_lines |-> coordinate_lines]
    ELSE LET line == Head(lines)
             rest == Tail(lines)
         IN  IF strip(line) = WordToks("{")
             THEN ScanBlock(rest, TRUE, coordinate_lines)
             ELSE IF ~found_first_bracket
             THEN ScanBlock(rest, FALSE, coordinate_lines)
             ELSE IF strip(line) = WordToks("}")
             THEN [lines |-> rest, coordinate_lines |-> coordinate_lines]
             ELSE ScanBlock(rest, TRUE, CollectLine(coordinate_lines, line))

\* for line in coordinate_lines: slc.coordinates.extend(_extract_coordinates(line))
RECURSIVE DecodeLines(_, _)
DecodeLines(coordinate_lines, coordinates) ==
    IF coordinate_lines = <<>> THEN [ok |-> TRUE, values |-> coordinates]
    ELSE LET r == _extract_coordinates(Head(coordinate_lines))
         IN  IF ~r.ok THEN Raised
             ELSE DecodeLines(Tail(coordinate_lines), coordinates \o r.values)

NoSlice == SliceData(-1, <<>>)

\* mutant: the exception of int(ln) leaves the function
NotASliceNumberRaises(rest) == [ret |-> "raise", lines |-> rest, slc |-> NoSlice]

\* except Exception: print("Not a Slice Number, returning."); return None
NotASliceNumber(rest) == [ret |-> "none", lines |-> rest, slc |-> NoSlice]

\* extract_slice_mask(lines): ret is "slice" (slc returned), "none" (None
\* returned) or "raise" (an exception leaves the function); lines is the
\* queue as the call leaves it
extract_slice_mask(lines) ==
    IF Len(lines) = 0                       \* pop(0) raises inside the try
    THEN [ret |-> "none", lines |-> lines, slc |-> NoSlice]
    ELSE LET ln == strip(Head(lines))
             rest == Tail(lines)
         IN  IF ln = WordToks("Tibia")
             THEN [ret |-> "none", lines |-> rest, slc |-> NoSlice]
             ELSE IF ~IsIntText(ln)         \* int(ln) raises inside the try
             THEN NotASliceNumber(rest)
             ELSE IF Len(rest) = 0          \* lines[0] raises IndexError
             THEN [ret |-> "raise", lines |-> rest, slc |-> NoSlice]
             ELSE IF RawEquals(rest[1], "{")
             THEN [ret |-> "none", lines |-> rest, slc |-> NoSlice]
             ELSE LET scan == ScanBlock(rest, FALSE, <<>>)
                      dec == DecodeLines(scan.coordinate_lines, <<>>)
                  IN  IF ~dec.ok
                      THEN [ret |-> "raise", lines |-> scan.lines, slc |-> NoSlice]
                      ELSE [ret |-> "slice", lines |-> scan.lines,
                            slc |-> SliceData(IntOf(ln), dec.values)]

----------------------------------------------------------------------------
(* masks.py: draw_slice_image *)

\* an index of a numpy axis of size n: 0..n-1, or -n..-1 counted from the end
IndexOk(i, n) == -n <= i /\ i < n
Wrap(i, n) == IF i < 0 THEN i + n ELSE i

\* mutant: range(c.x1, c.x2) leaves out the last column of a run
WrittenIndicesExclusiveEnd(slc, meta) ==
    UNION { { <<meta.image_height - slc.coordinates[k].y, idx>> :
                idx \in slc.coordinates[k].x1 .. (slc.coordinates[k].x2 - 1) } :
            k \in DOMAIN slc.coordinates }

\* mutant: the row is not flipped
WrittenIndicesNoFlip(slc, meta) ==
    UNION { { <<slc.coordinates[k].y, idx>> :
                idx \in slc.coordinates[k].x1 .. slc.coordinates[k].x2 } :
            k \in DOMAIN slc.coordinates }

\* the indices image_array[meta.image_height - c.y, idx] the two loops write
WrittenIndices(slc, meta) ==
    UNION { { <<meta.image_height - slc.coordinates[k].y, idx>> :
                idx \in slc.coordinates[k].x1 .. slc.coordinates[k].x2 } :
            k \in DOMAIN slc.coordinates }

ImageCells(meta) == (0..(meta.image_width - 1)) \X (0..(meta.image_height - 1))

NoImage == <<>>

\* draw_slice_image(slc, meta): the array, or the exception numpy raises
\* (ValueError of np.zeros for a negative dimension, IndexError of an index
\* outside -n..n-1); every write stores 255, so their order does not matter
draw_slice_image(slc, meta) ==
    IF meta.image_width < 0 \/ meta.image_height < 0
    THEN [ok |-> FALSE, image |-> NoImage]
    ELSE IF \E ix \in WrittenIndices(slc, meta) :
                ~IndexOk(ix[1], meta.image_width) \/ ~IndexOk(ix[2], meta.image_height)
    THEN [ok |-> FALSE, image |-> NoImage]
    ELSE [ok |-> TRUE,
          image |-> [rc \in ImageCells(meta) |->
                       IF \E ix \in WrittenIndices(slc, meta) :
                             /\ Wrap(ix[1], meta.image_width) = rc[1]
                             /\ Wrap(ix[2], meta.image_height) = rc[2]
                       THEN 255 ELSE 0]]


RawInts == 0..MaxRaw

RowTokens ==
    { <<I(n)>> : n \in RawInts } \cup { <<W("Tibia")>>, <<I(2), I(4)>>, <<W("")>> }

PairTokens ==
    { <<I(a), I(b)>> : a, b \in RawInts }
        \cup { <<I(2)>>, <<I(1), I(2), I(3)>>, <<I(2), W("a")>>, <<W("b"), I(2)>>, <<W("")>> }

SeqsUpTo(S, n) == UNION { [1..k -> S] : k \in 0..n }

CoordTexts == { <<r>> \o ps : r \in RowTokens, ps \in SeqsUpTo(PairTokens, MaxPairs) }

NoLine == <<>>
NoOut == [ok |-> FALSE, values |-> <<>>]

----------------------------------------------------------------------------
(* Inputs of read_masks_from_txt: the lines readlines() gives for a file *)

MaxBody == 4      \* every sequence of at most MaxBody lines follows a header
MaxBlocks == 2    \* and every sequence of at most MaxBlocks slice blocks

Num1 == Line(NumToks(1))
Num2 == Line(NumToks(2))
Open == Line(WordToks("{"))
Close == Line(WordToks("}"))
Tibia == Line(WordToks("Tibia"))
Threshold == Line(<< <<I(0), I(5)>> >>)                     \* "0.5"
CoordA == Line(<< <<I(13)>>, <<I(2), I(4)>> >>)             \* "13 2.4"
CoordB == Line(<< <<I(12)>>, <<I(1), I(1)>>, <<I(3), I(5)>> >>)   \* "12 1.1 3.5"
CoordBad == Line(<< <<I(13)>>, <<I(2)>> >>)                 \* "13 2"
CoordOut == Line(<< <<I(3)>>, <<I(1), I(1)>> >>)            \* "3 1.1": row = height
\* the last line of a file that does not end in a line break
OpenNoBreak == RawLine(WordToks("{"))

Alphabet == {Num1, Num2, Open, Close, Tibia, CoordA, CoordBad}

\* only the last line of a file can lack its line break
ShortBodies ==
    SeqsUpTo(Alphabet, MaxBody)
        \cup { Append(b, OpenNoBreak) : b \in SeqsUpTo(Alphabet, MaxBody - 1) }

\* slice blocks as the format writes them: number, threshold, "{", lines, "}"
BlockContents ==
    { <<>>, <<CoordA>>, <<CoordA, CoordB>>, <<CoordB, CoordA>>, <<CoordBad>>, <<CoordOut>> }
Blocks ==
    { <<n, Threshold, Open>> \o c \o <<Close>> : n \in {Num1, Num2}, c \in BlockContents }
Tails == { <<>>, <<Tibia>>, <<Num1, Open, CoordA>>, <<Num2, OpenNoBreak>> }

RECURSIVE BlockSeqs(_)
BlockSeqs(k) ==
    IF k = 0 THEN { <<>> }
    ELSE BlockSeqs(k - 1) \cup { bs \o b : bs \in BlockSeqs(k - 1), b \in Blocks }

BlockBodies == { bs \o t : bs \in BlockSeqs(MaxBlocks), t \in Tails }

HeaderLines(w, h, s, e) ==
    << Line(WordToks("9000099")), Line(WordToks("v00")), Line(WordToks("LEFT")),
       Line(WordToks("")), Line(w), Line(h), Line(s), Line(e), Line(WordToks("Femur")) >>

Headers ==
    { HeaderLines(NumToks(10), NumToks(10), NumToks(1), NumToks(1)),
      HeaderLines(NumToks(10), NumToks(10), NumToks(1), NumToks(2)) }

\* a header with a field that is no integer, and a file that ends in its header
BrokenHeader == HeaderLines(WordToks("wide"), NumToks(10), NumToks(1), NumToks(2))
BrokenFiles ==
    { BrokenHeader \o b : b \in Blocks }
        \cup { SubSeq(hd, 1, k) : hd \in Headers, k \in 0..(HeaderLen - 1) }

\* headers whose width, height, start and end differ and whose 4th and 9th
\* lines hold other things than the format writes there
OddLines == { Line(WordToks("")), Line(WordToks("Femur")), Tibia, Num2 }
OddHeaders ==
    { [HeaderLines(NumToks(12), NumToks(10), NumToks(1), NumToks(2))
          EXCEPT ![4] = l4, ![9] = l9] : l4 \in OddLines, l9 \in OddLines }
OddHeaderFiles == { hd \o b : hd \in OddHeaders, b \in Blocks }

Files ==
    { hd \o b : hd \in Headers, b \in ShortBodies \cup BlockBodies }
        \cup BrokenFiles \cup OddHeaderFiles

----------------------------------------------------------------------------
(* files.py: read_masks_from_txt *)

\* mutant: the end slice is not taken for the last one
GotLastSliceStrict(slc, meta) == slc.slice_number > meta.end_slice

\* if slc.slice_number >= metadata.end_slice
GotLastSlice(slc, meta) == slc.slice_number >= meta.end_slice

\* mutant: None is skipped like an exception
LoopControlNoneContinues(r, meta) ==
    CASE r.ret = "none" -> "loop"
      [] r.ret = "raise" -> "loop"
      [] OTHER -> IF r.slc.slice_number >= meta.end_slice THEN "draw" ELSE "loop"

\* mutant: an exception ends the loop like None
LoopControlRaiseBreaks(r, meta) ==
    CASE r.ret = "none" -> "draw"
      [] r.ret = "raise" -> "draw"
      [] OTHER -> IF r.slc.slice_number >= meta.end_slice THEN "draw" ELSE "loop"

\* where the loop body leaves the loop: break on None, continue on an
\* exception, break once the last slice is in
LoopControl(r, meta) ==
    CASE r.ret = "none" -> "draw"
      [] r.ret = "raise" -> "loop"
      [] OTHER -> IF GotLastSlice(r.slc, meta) THEN "draw" ELSE "loop"

\* mutant: a slice number that data already holds keeps its first raster
RECURSIVE DrawAllKeepsFirst(_, _, _)
DrawAllKeepsFirst(todo, meta, acc) ==
    IF todo = <<>> THEN [ok |-> TRUE, data |-> acc]
    ELSE LET s == Head(todo)
             r == draw_slice_image(s, meta)
         IN  IF ~r.ok THEN [ok |-> FALSE, data |-> acc]
             ELSE DrawAllKeepsFirst(Tail(todo), meta,
                          [k \in DOMAIN acc \cup {s.slice_number} |->
                             IF k \in DOMAIN acc THEN acc[k] ELSE r.image])

\* the keys and values of data after: for s in slices: data[s.slice_number] = ...
RECURSIVE DrawAll(_, _, _)
DrawAll(todo, meta, acc) ==
    IF todo = <<>> THEN [ok |-> TRUE, data |-> acc]
    ELSE LET s == Head(todo)
             r == draw_slice_image(s, meta)
         IN  IF ~r.ok THEN [ok |-> FALSE, data |-> acc]
             ELSE DrawAll(Tail(todo), meta,
                          [k \in DOMAIN acc \cup {s.slice_number} |->
                             IF k = s.slice_number THEN r.image ELSE acc[k]])

NoData == <<>>

SplitIdle ==
    /\ p_pc = "idle" /\ p_listing = <<>> /\ p_use_first = <<>> /\ p_weights = <<>>
    /\ p_patients = <<>> /\ p_num = <<>> /\ p_result = <<>>

BatchIdle ==
    /\ t_pc = "idle" /\ t_patients = <<>> /\ t_idx = 0 /\ t_visit = 0
    /\ t_seen = {} /\ t_masks = <<>>
    /\ SplitIdle

DocIdle ==
    /\ pc = "idle" /\ file_lines = <<>> /\ orig_lines = <<>> /\ prev_lines = <<>>
    /\ metadata = NoMeta /\ slices = <<>> /\ data = NoData /\ last_ret = "nocall"
    /\ BatchIdle

HeaderIdle == h_pc = "idle" /\ h_lines = <<>> /\ h_out = <<>>

CoordIdle == c_pc = "idle" /\ c_line = NoLine /\ c_out = NoOut /\ HeaderIdle

FillIdle == f_pc = "idle" /\ f_mask = <<>> /\ f_once = <<>> /\ f_twice = <<>>

DrawIdle ==
    /\ d_pc = "idle" /\ d_slc = <<>> /\ d_meta = <<>> /\ d_out = <<>>
    /\ FillIdle

BmlIdle ==
    /\ b_pc = "idle" /\ b_diff = <<>> /\ b_bml_read = <<>> /\ b_bml = <<>>
    /\ b_missing_bml = {} /\ b_missing_preds = {} /\ b_usable = 0
    /\ b_pairs = <<>>

CompareIdle ==
    /\ k_pc = "idle" /\ k_iwfs = <<>> /\ k_dess = <<>>
    /\ k_missing_iwfs = {} /\ k_missing_dess = {} /\ k_diff = <<>>
    /\ BmlIdle

VolIdle ==
    /\ v_pc = "idle" /\ v_arr = <<>> /\ v_size = 0 /\ v_out = <<>> /\ v_out2 = <<>>
    /\ CompareIdle

MergeIdle ==
    /\ m_pc = "idle" /\ m_a = <<>> /\ m_b = <<>> /\ m_c = <<>>
    /\ m_left = <<>> /\ m_right = <<>>

SeriesIdle ==
    /\ g_result = <<>> /\ g_prev = <<>> /\ g_log = <<>> /\ g_seen = 0
    /\ g_swapped = <<>> /\ g_ok = TRUE

StackIdle == s_pc = "idle" /\ s_nested = <<>> /\ s_out = <<>> /\ SeriesIdle

DictIdle ==
    /\ u_pc = "idle" /\ u_original = <<>> /\ u_update = <<>>
    /\ u_before = <<>> /\ u_out = <<>>
    /\ MergeIdle
    /\ StackIdle

\* file_lines = file.readlines()
DocInit ==
    /\ pc = "start"
    /\ orig_lines \in Files
    /\ file_lines = orig_lines
    /\ prev_lines = <<>>
    /\ metadata = NoMeta
    /\ slices = <<>>
    /\ data = NoData
    /\ last_ret = "nocall"
    /\ BatchIdle

\* metadata = mask_generator.extract_mask_metadata(file_lines); an exception
\* leaves read_masks_from_txt
ReadMetadata ==
    /\ pc = "start"
    /\ LET r == extract_mask_metadata(file_lines)
       IN  /\ file_lines' = r.lines
           /\ metadata' = r.meta
           /\ pc' = IF r.ok THEN "loop" ELSE "raised"
    /\ UNCHANGED <<slices, data, orig_lines, prev_lines, last_ret>>
    /\ UNCHANGED <<batchVars, coordVars, drawVars, volVars, dictVars>>

\* mutant: a call of extract_slice_mask that raises leaves the queue as it was
SliceLoopStepRewinds ==
    /\ pc = "loop"
    /\ Len(file_lines) > 0
    /\ LET r == extract_slice_mask(file_lines)
       IN  /\ file_lines' = IF r.ret = "raise" THEN file_lines ELSE r.lines
           /\ prev_lines' = file_lines
           /\ last_ret' = r.ret
           /\ slices' = IF r.ret = "slice" THEN Append(slices, r.slc) ELSE slices
           /\ pc' = LoopControl(r, metadata)
    /\ UNCHANGED <<metadata, data, orig_lines>>
    /\ UNCHANGED <<batchVars, coordVars, drawVars, volVars, dictVars>>

\* one pass of: while not _got_last_slice and len(file_lines) > 0
SliceLoopStep ==
    /\ pc = "loop"
    /\ Len(file_lines) > 0
    /\ LET r == extract_slice_mask(file_lines)
       IN  /\ file_lines' = r.lines
           /\ prev_lines' = file_lines
           /\ last_ret' = r.ret
           /\ slices' = IF r.ret = "slice" THEN Append(slices, r.slc) ELSE slices
           /\ pc' = LoopControl(r, metadata)
    /\ UNCHANGED <<metadata, data, orig_lines>>
    /\ UNCHANGED <<batchVars, coordVars, drawVars, volVars, dictVars>>

\* the loop condition fails: no line is left
SliceLoopExit ==
    /\ pc = "loop"
    /\ Len(file_lines) = 0
    /\ pc' = "draw"
    /\ UNCHANGED <<file_lines, metadata, slices, data, orig_lines, prev_lines, last_ret>>
    /\ UNCHANGED <<batchVars, coordVars, drawVars, volVars, dictVars>>

\* data = {}; for s in slices: data[s.slice_number] = draw_slice_image(s, metadata);
\* return data. An exception of draw_slice_image leaves read_masks_from_txt.
DrawSlices ==
    /\ pc = "draw"
    /\ LET r == DrawAll(slices, metadata, NoData)
       IN  /\ data' = IF r.ok THEN r.data ELSE NoData
           /\ pc' = IF r.ok THEN "done" ELSE "raised"
    /\ UNCHANGED <<file_lines, metadata, slices, orig_lines, prev_lines, last_ret>>
    /\ UNCHANGED <<batchVars, coordVars, drawVars, volVars, dictVars>>

Init == DocInit /\ CoordIdle /\ DrawIdle /\ VolIdle /\ DictIdle

Next == ReadMetadata \/ SliceLoopStep \/ SliceLoopExit \/ DrawSlices

Spec == Init /\ [][Next]_vars

\* the positions of read_masks_from_txt that have a next step
Running == pc \in {"start", "loop", "draw"}

\* read_masks_from_txt is one sequential call: it takes its next step as
\* long as it has one. This is WF_vars(Next) with ENABLED <<Next>>_vars
\* written as the state predicate it equals, Running: one of the four
\* actions has its guard true at each of these positions, and each changes
\* pc or shortens the queue.
Progress == ([]<>(~Running)) \/ ([]<><<Next>>_vars)

FairSpec == Init /\ [][Next]_vars /\ Progress

----------------------------------------------------------------------------
(* _extract_coordinates on its own *)

CoordInit ==
    /\ c_pc = "call"
    /\ c_line \in CoordTexts
    /\ c_out = NoOut
    /\ HeaderIdle

CallExtractCoordinates ==
    /\ c_pc = "call"
    /\ c_out' = _extract_coordinates(c_line)
    /\ c_pc' = "done"
    /\ UNCHANGED <<c_line, headerVars>>
    /\ UNCHANGED <<docVars, drawVars, volVars, dictVars>>

InitCoord == CoordInit /\ DocIdle /\ DrawIdle /\ VolIdle /\ DictIdle

NextCoord == CallExtractCoordinates

SpecCoord == InitCoord /\ [][NextCoord]_vars

----------------------------------------------------------------------------
(* extract_mask_metadata on its own *)

MaxField == 2     \* the integers written in the header are -1..MaxField

\* what the 5th to 8th line of a file can hold: the text of an integer, of a
\* negative one too, or a word
FieldTexts == { NumToks(n) : n \in -1..MaxField } \cup { WordToks("wide") }

HeaderInit ==
    /\ h_pc = "call"
    /\ \/ \E w, h, s, e \in FieldTexts, rest \in { <<>>, <<Num1, Threshold>> } :
             h_lines = HeaderLines(w, h, s, e) \o rest
       \/ \E k \in 0..(HeaderLen - 1) :
             h_lines = SubSeq(HeaderLines(NumToks(2), NumToks(2), NumToks(1), NumToks(2)), 1, k)
    /\ h_out = <<>>
    /\ c_pc = "idle" /\ c_line = NoLine /\ c_out = NoOut

CallExtractMaskMetadata ==
    /\ h_pc = "call"
    /\ h_out' = extract_mask_metadata(h_lines)
    /\ h_pc' = "done"
    /\ UNCHANGED <<h_lines, c_line, c_out, c_pc>>
    /\ UNCHANGED <<docVars, drawVars, volVars, dictVars>>

InitHeader == HeaderInit /\ DocIdle /\ DrawIdle /\ VolIdle /\ DictIdle

NextHeader == CallExtractMaskMetadata

SpecHeader == InitHeader /\ [][NextHeader]_vars

----------------------------------------------------------------------------
(* draw_slice_image on its own *)

MaxDim == 2       \* canvases are up to MaxDim wide and high
MaxSegs == 2      \* segments per slice

\* runs that start left of the canvas, are empty, lie inside, or end right of it
Runs(m) ==
    { <<-1, 0>>, <<1, 0>>, <<0, 0>>, <<0, m - 1>>, <<m - 1, m>> }

\* rows 1..m lie inside a canvas m high; 0 is below it and m + 1 above it
Segments == { Coordinate(y, r[1], r[2]) : y \in 0..(MaxDim + 1), r \in Runs(MaxDim) }

CanvasMeta(w, h) == MaskMetadata(<<>>, <<>>, <<>>, w, h, 1, 1)

RasterInputs ==
    { <<SliceData(1, cs), CanvasMeta(w, h)>> :
        cs \in SeqsUpTo(Segments, MaxSegs),
        w \in (MaxDim - 1)..MaxDim, h \in (MaxDim - 1)..MaxDim }

\* segment (y = 10, x1 = 5, x2 = 8) on a 20 x 20 canvas
ExampleRaster == <<SliceData(1, <<Coordinate(10, 5, 8)>>), CanvasMeta(20, 20)>>

DrawInit ==
    /\ d_pc = "call"
    /\ \E inp \in RasterInputs \cup {ExampleRaster} :
          d_slc = inp[1] /\ d_meta = inp[2]
    /\ d_out = <<>>
    /\ FillIdle

CallDrawSliceImage ==
    /\ d_pc = "call"
    /\ d_out' = draw_slice_image(d_slc, d_meta)
    /\ d_pc' = "done"
    /\ UNCHANGED <<d_slc, d_meta, fillVars>>
    /\ UNCHANGED <<docVars, coordVars, volVars, dictVars>>

InitDraw == DrawInit /\ DocIdle /\ CoordIdle /\ VolIdle /\ DictIdle

NextDraw == CallDrawSliceImage

SpecDraw == InitDraw /\ [][NextDraw]_vars

----------------------------------------------------------------------------
(* masks.py: fill_mask *)

MaxGridCols == 4  \* masks have GridRows rows and 1..MaxGridCols columns
GridRows == 3

\* the cells next to a cell along an axis (the default structuring element of
\* scipy.ndimage.binary_fill_holes)
Neighbours(c) ==
    { <<c[1] - 1, c[2]>>, <<c[1] + 1, c[2]>>, <<c[1], c[2] - 1>>, <<c[1], c[2] + 1>> }

\* mutant: the dilation is done once
DilateOnce(reached, off) == reached

\* binary dilation of the outside into the off cells, repeated until nothing
\* changes
RECURSIVE DilateToTheEnd(_, _)
DilateToTheEnd(reached, off) ==
    LET more == { c \in off \ reached : Neighbours(c) \cap reached # {} }
    IN  IF more = {} THEN reached ELSE DilateToTheEnd(reached \cup more, off)

\* ndimage.binary_fill_holes(image_array).astype(np.uint8): the complement of
\* the dilation of the outside (border value 1) into the cells that are zero
binary_fill_holes(image_array) ==
    LET cells == DOMAIN image_array
        off == { c \in cells : image_array[c] = 0 }
        first == { c \in off : Neighbours(c) \ cells # {} }
        outside == DilateToTheEnd(first, off)
    IN  [c \in cells |-> IF c \in outside THEN 0 ELSE 1]

\* fill_mask(image_array): np.where(closed > 0, 255, closed), a new array
fill_mask(image_array) ==
    LET closed == binary_fill_holes(image_array)
    IN  [c \in DOMAIN closed |-> IF closed[c] > 0 THEN 255 ELSE closed[c]]

GridCells(cols) == (0..(GridRows - 1)) \X (0..(cols - 1))

FillInit ==
    /\ f_pc = "call"
    /\ \E cols \in 1..MaxGridCols : f_mask \in [GridCells(cols) -> {0, 255}]
    /\ f_once = <<>>
    /\ f_twice = <<>>
    /\ d_pc = "idle" /\ d_slc = <<>> /\ d_meta = <<>> /\ d_out = <<>>

\* filled = fill_mask(mask)
CallFillMask ==
    /\ f_pc = "call"
    /\ f_once' = fill_mask(f_mask)
    /\ f_pc' = "again"
    /\ UNCHANGED <<f_mask, f_twice>>
    /\ UNCHANGED <<d_slc, d_meta, d_out, d_pc>>
    /\ UNCHANGED <<docVars, coordVars, volVars, dictVars>>

\* fill_mask(filled)
CallFillMaskAgain ==
    /\ f_pc = "again"
    /\ f_twice' = fill_mask(f_once)
    /\ f_pc' = "done"
    /\ UNCHANGED <<f_mask, f_once>>
    /\ UNCHANGED <<d_slc, d_meta, d_out, d_pc>>
    /\ UNCHANGED <<docVars, coordVars, volVars, dictVars>>

InitFill == FillInit /\ DocIdle /\ CoordIdle /\ VolIdle /\ DictIdle

NextFill == CallFillMask \/ CallFillMaskAgain

SpecFill == InitFill /\ [][NextFill]_vars

----------------------------------------------------------------------------
(* organize/make_meta.py: make_meta_for_patients generating the bone masks *)

MaxVisitDirs == 2     \* visit folders of the first patient folder; the second has one at most

\* the while loop of read_masks_from_txt run to its end: the slices appended
RECURSIVE SliceLoop(_, _, _)
SliceLoop(lines, meta, acc) ==
    IF Len(lines) = 0 THEN acc
    ELSE LET r == extract_slice_mask(lines)
             got == IF r.ret = "slice" THEN Append(acc, r.slc) ELSE acc
         IN  IF LoopControl(r, meta) = "draw" THEN got
             ELSE SliceLoop(r.lines, meta, got)

\* read_masks_from_txt(path) on the lines of the file: the mapping returned,
\* or ok = FALSE when an exception leaves the function (from
\* extract_mask_metadata or from draw_slice_image)
read_masks_from_txt(lines) ==
    LET h == extract_mask_metadata(lines)
    IN  IF ~h.ok THEN [ok |-> FALSE, data |-> NoData]
        ELSE LET r == DrawAll(SliceLoop(h.lines, h.meta, <<>>), h.meta, NoData)
             IN  IF r.ok THEN [ok |-> TRUE, data |-> r.data]
                 ELSE [ok |-> FALSE, data |-> NoData]

\* bone files: two slices inside the canvas; a header whose width is no
\* integer; a coordinate line whose row is outside the canvas
GoodDocument ==
    HeaderLines(NumToks(10), NumToks(10), NumToks(1), NumToks(2))
        \o <<Num1, Threshold, Open, CoordA, Close>>
        \o <<Num2, Threshold, Open, CoordB, Close>>
BrokenDocument == BrokenHeader \o <<Num1, Threshold, Open, CoordA, Close>>
OutOfCanvasDocument ==
    HeaderLines(NumToks(10), NumToks(10), NumToks(1), NumToks(2))
        \o <<Num1, Threshold, Open, CoordOut, Close>>

\* a visit folder: what input_path.glob('*FemurBone.txt') lists in it
VisitFolders ==
    { <<>>, <<GoodDocument>>, <<BrokenDocument>>, <<OutOfCanvasDocument>>,
      <<GoodDocument, BrokenDocument>> }

\* make_meta_bone_masks(visit, ...): the mask files it writes, by patient,
\* visit and slice number; ok = FALSE when the exception of
\* read_masks_from_txt leaves it
make_meta_bone_masks(bone_files, patient, visit) ==
    IF Len(bone_files) = 0 THEN [ok |-> TRUE, written |-> <<>>]
    ELSE LET r == read_masks_from_txt(bone_files[1])
         IN  IF ~r.ok THEN [ok |-> FALSE, written |-> <<>>]
             ELSE [ok |-> TRUE,
                   written |-> [k \in { <<patient, visit, n>> : n \in DOMAIN r.data } |->
                                  fill_mask(r.data[k[3]])]]

\* patients = [patient for patient in folder.iterdir() if patient.is_dir()]
BatchInit ==
    /\ t_pc = "run"
    /\ \E v1 \in SeqsUpTo(VisitFolders, MaxVisitDirs), v2 \in SeqsUpTo(VisitFolders, 1) :
          t_patients = << [name |-> 7, visits |-> v1], [name |-> 8, visits |-> v2] >>
    /\ t_idx = 1
    /\ t_visit = 1
    /\ t_seen = {}
    /\ t_masks = <<>>
    /\ SplitIdle
    /\ pc = "idle" /\ file_lines = <<>> /\ orig_lines = <<>> /\ prev_lines = <<>>
    /\ metadata = NoMeta /\ slices = <<>> /\ data = NoData /\ last_ret = "nocall"

\* one pass of: for visit in visits, with bone = True and the other three off;
\* there is no try around the call
MakeMetaVisit ==
    /\ t_pc = "run"
    /\ t_idx <= Len(t_patients)
    /\ t_visit <= Len(t_patients[t_idx].visits)
    /\ LET patient == t_patients[t_idx]
           r == make_meta_bone_masks(patient.visits[t_visit], patient.name, t_visit)
       IN  /\ t_seen' = t_seen \cup { <<t_idx, t_visit>> }
           /\ t_masks' = [k \in DOMAIN t_masks \cup DOMAIN r.written |->
                            IF k \in DOMAIN r.written THEN r.written[k] ELSE t_masks[k]]
           /\ t_pc' = IF r.ok THEN "run" ELSE "raised"
    /\ t_visit' = t_visit + 1
    /\ UNCHANGED <<t_patients, t_idx, splitVars>>
    /\ UNCHANGED <<file_lines, metadata, slices, data, pc, orig_lines, prev_lines, last_ret>>
    /\ UNCHANGED <<coordVars, drawVars, volVars, dictVars>>

\* the visits of a patient are through: the next pass of for idx, patient
NextPatient ==
    /\ t_pc = "run"
    /\ t_idx < Len(t_patients)
    /\ t_visit > Len(t_patients[t_idx].visits)
    /\ t_idx' = t_idx + 1
    /\ t_visit' = 1
    /\ UNCHANGED <<t_patients, t_seen, t_masks, t_pc, splitVars>>
    /\ UNCHANGED <<file_lines, metadata, slices, data, pc, orig_lines, prev_lines, last_ret>>
    /\ UNCHANGED <<coordVars, drawVars, volVars, dictVars>>

\* the last patient is through: make_meta_for_patients returns
BatchReturns ==
    /\ t_pc = "run"
    /\ t_idx = Len(t_patients)
    /\ t_visit > Len(t_patients[t_idx].visits)
    /\ t_pc' = "done"
    /\ UNCHANGED <<t_patients, t_idx, t_visit, t_seen, t_masks, splitVars>>
    /\ UNCHANGED <<file_lines, metadata, slices, data, pc, orig_lines, prev_lines, last_ret>>
    /\ UNCHANGED <<coordVars, drawVars, volVars, dictVars>>

InitBatch == BatchInit /\ CoordIdle /\ DrawIdle /\ VolIdle /\ DictIdle

NextBatch == MakeMetaVisit \/ NextPatient \/ BatchReturns

SpecBatch == InitBatch /\ [][NextBatch]_vars

----------------------------------------------------------------------------
(* organize/split_meta.py: split_patients *)

MaxPatientDirs == 3   \* patient folders in the listing

\* a weight is a float; it is modelled by the hundredths of its decimal text
WeightTexts == { -50, 0, 15, 30, 50, 70, 100, 150 }

\* the weights whose float is the number written (binary fractions)
ExactWeights == { -50, 0, 50, 100, 150 }

\* use_first: None or an int
NoUseFirst == [given |-> FALSE, n |-> 0]
UseFirst(n) == [given |-> TRUE, n |-> n]

\* patients[0:use_first]: the first use_first entries, and all but the last
\* -use_first entries for a negative use_first
Truncate(patients, use_first) ==
    IF ~use_first.given THEN patients
    ELSE LET stop == IF use_first.n >= 0 THEN use_first.n
                     ELSE Len(patients) + use_first.n
         IN  SubSeq(patients, 1, IF stop > Len(patients) THEN Len(patients) ELSE stop)

\* math.floor(num_patients * weight) on floats: the floor of the product of
\* the numbers written, or one less where that product is a whole number and
\* the float of the weight (or of the product) can lie under it
FloorOfProduct(n, weight) ==
    LET k == (n * weight) \div 100
    IN  IF (n * weight) % 100 = 0 /\ n * weight # 0 /\ weight \notin ExactWeights
        THEN {k - 1, k} ELSE {k}

\* train + test + validate == 1.0 on floats: holds for exact weights that add
\* to 1, fails for weights that do not add to 1, and can go either way for
\* weights that add to 1 as written but are rounded as floats
AssertOutcomes(weights) ==
    IF weights.train + weights.test + weights.validate # 100 THEN {FALSE}
    ELSE IF {weights.train, weights.test, weights.validate} \subseteq ExactWeights
    THEN {TRUE} ELSE {TRUE, FALSE}

\* mutant: the entries are read by position and stay in the list
PopLoopKeepsQueue(patients, count) ==
    IF count <= 0 THEN [ok |-> TRUE, taken |-> <<>>, patients |-> patients]
    ELSE IF count > Len(patients)
    THEN [ok |-> FALSE, taken |-> patients, patients |-> patients]
    ELSE [ok |-> TRUE, taken |-> SubSeq(patients, 1, count), patients |-> patients]

\* for i in range(0, count): result[...].append(patients.pop(0)); ok = FALSE
\* is the IndexError of pop on the empty list
PopLoop(patients, count) ==
    IF count <= 0 THEN [ok |-> TRUE, taken |-> <<>>, patients |-> patients]
    ELSE IF count > Len(patients)
    THEN [ok |-> FALSE, taken |-> patients, patients |-> <<>>]
    ELSE [ok |-> TRUE, taken |-> SubSeq(patients, 1, count),
          patients |-> SubSeq(patients, count + 1, Len(patients))]

NoSplit == [train |-> <<>>, test |-> <<>>, validate |-> <<>>]

SplitInit ==
    /\ p_pc = "start"
    /\ \E n \in 0..MaxPatientDirs : p_listing = [i \in 1..n |-> 100 + i]
    /\ p_use_first \in { NoUseFirst, UseFirst(-1), UseFirst(1), UseFirst(MaxPatientDirs) }
    /\ p_weights \in [train : WeightTexts, test : WeightTexts, validate : WeightTexts]
    /\ p_patients = <<>>
    /\ p_num = <<>>
    /\ p_result = NoSplit
    /\ t_pc = "idle" /\ t_patients = <<>> /\ t_idx = 0 /\ t_visit = 0
    /\ t_seen = {} /\ t_masks = <<>>
    /\ pc = "idle" /\ file_lines = <<>> /\ orig_lines = <<>> /\ prev_lines = <<>>
    /\ metadata = NoMeta /\ slices = <<>> /\ data = NoData /\ last_ret = "nocall"

\* the assertion, the listing, the truncation and the three counts
CountPatients ==
    /\ p_pc = "start"
    /\ \E passes \in AssertOutcomes(p_weights) :
          IF ~passes
          THEN /\ p_pc' = "assertion_error"
               /\ UNCHANGED <<p_patients, p_num>>
          ELSE LET patients == Truncate(p_listing, p_use_first)
                   num_patients == Len(patients)
               IN  /\ p_patients' = patients
                   /\ \E num_train \in FloorOfProduct(num_patients, p_weights.train),
                         num_test \in FloorOfProduct(num_patients, p_weights.test) :
                         p_num' = [num_patients |-> num_patients,
                                   num_train |-> num_train,
                                   num_test |-> num_test,
                                   num_validate |-> num_patients - (num_train + num_test)]
                   /\ p_pc' = "pop"
    /\ UNCHANGED <<p_listing, p_use_first, p_weights, p_result>>
    /\ UNCHANGED <<t_patients, t_idx, t_visit, t_seen, t_masks, t_pc>>
    /\ UNCHANGED <<file_lines, metadata, slices, data, pc, orig_lines, prev_lines, last_ret>>
    /\ UNCHANGED <<coordVars, drawVars, volVars, dictVars>>

\* the three loops that move patients from the list to the result
PopPatients ==
    /\ p_pc = "pop"
    /\ LET a == PopLoop(p_patients, p_num.num_train)
           b == PopLoop(a.patients, p_num.num_test)
           c == PopLoop(b.patients, p_num.num_validate)
       IN  IF ~a.ok
           THEN /\ p_result' = [NoSplit EXCEPT !.train = a.taken]
                /\ p_patients' = a.patients
                /\ p_pc' = "index_error"
           ELSE IF ~b.ok
           THEN /\ p_result' = [NoSplit EXCEPT !.train = a.taken, !.test = b.taken]
                /\ p_patients' = b.patients
                /\ p_pc' = "index_error"
           ELSE /\ p_result' = [train |-> a.taken, test |-> b.taken, validate |-> c.taken]
                /\ p_patients' = c.patients
                /\ p_pc' = IF c.ok THEN "print" ELSE "index_error"
    /\ UNCHANGED <<p_listing, p_use_first, p_weights, p_num>>
    /\ UNCHANGED <<t_patients, t_idx, t_visit, t_seen, t_masks, t_pc>>
    /\ UNCHANGED <<file_lines, metadata, slices, data, pc, orig_lines, prev_lines, last_ret>>
    /\ UNCHANGED <<coordVars, drawVars, volVars, dictVars>>

\* print(... num_train/num_patients ...); return result
PrintSplit ==
    /\ p_pc = "print"
    /\ p_pc' = IF p_num.num_patients = 0 THEN "zero_division_error" ELSE "done"
    /\ UNCHANGED <<p_listing, p_use_first, p_weights, p_patients, p_num, p_result>>
    /\ UNCHANGED <<t_patients, t_idx, t_visit, t_seen, t_masks, t_pc>>
    /\ UNCHANGED <<file_lines, metadata, slices, data, pc, orig_lines, prev_lines, last_ret>>
    /\ UNCHANGED <<coordVars, drawVars, volVars, dictVars>>

InitSplit == SplitInit /\ CoordIdle /\ DrawIdle /\ VolIdle /\ DictIdle

NextSplit == CountPatients \/ PopPatients \/ PrintSplit

SpecSplit == InitSplit /\ [][NextSplit]_vars

----------------------------------------------------------------------------
(* C1 *)

\* a valid coordinate line "<y> <x1>.<x2> ...": an integer row, then pairs of integers
ValidCoordText(toks) ==
    /\ Len(toks) >= 1
    /\ Len(toks[1]) = 1 /\ toks[1][1].isInt
    /\ \A i \in 2..Len(toks) :
          Len(toks[i]) = 2 /\ toks[i][1].isInt /\ toks[i][2].isInt

\* C1: a valid coordinate line with N pairs decodes to exactly N segments, in
\* input order, each with y = y_raw - 3, x1 = x1_raw - 1, x2 = x2_raw - 1
C1_SegmentsOfValidLine ==
    (c_pc = "done" /\ ValidCoordText(c_line)) =>
        /\ c_out.ok
        /\ Len(c_out.values) = Len(c_line) - 1
        /\ \A i \in 1..(Len(c_line) - 1) :
              /\ c_out.values[i].y = c_line[1][1].n - 3
              /\ c_out.values[i].x1 = c_line[i + 1][1].n - 1
              /\ c_out.values[i].x2 = c_line[i + 1][2].n - 1

\* a line with two different pairs has been decoded
C1_Witness ==
    /\ c_pc = "done"
    /\ ValidCoordText(c_line)
    /\ Len(c_line) = 3
    /\ c_line[2] # c_line[3]
    /\ Len(c_out.values) = 2

----------------------------------------------------------------------------
(* analysis/volume.py: mask *)

\* a numpy array: its dtype, its shape and its elements in row-major order
\* (0 and 1 stand for False and True in a bool array); ndarray = FALSE is an
\* object of another type
Array(dtype, shape, flat) ==
    [ndarray |-> TRUE, dtype |-> dtype, shape |-> shape, flat |-> flat]
NotAnArray(flat) ==
    [ndarray |-> FALSE, dtype |-> "list", shape |-> <<Len(flat)>>, flat |-> flat]

ndim(arr) == Len(arr.shape)
count_nonzero(arr) == Cardinality({ i \in DOMAIN arr.flat : arr.flat[i] # 0 })

Failed(which) == [ok |-> FALSE, err |-> which, value |-> 0]

\* mutant: the size of the array is taken for its number of on cells
MaskCountsEveryCell(arr, voxel_size) ==
    IF ~arr.ndarray THEN Failed("type")
    ELSE IF arr.dtype # "bool" THEN Failed("dtype")
    ELSE IF ~(ndim(arr) = 2 \/ ndim(arr) = 3) THEN Failed("ndim")
    ELSE [ok |-> TRUE, err |-> "", value |-> voxel_size * Len(arr.flat)]

\* mutant: the rank is tested before the dtype
MaskTestsRankFirst(arr, voxel_size) ==
    IF ~arr.ndarray THEN Failed("type")
    ELSE IF ~(ndim(arr) = 2 \/ ndim(arr) = 3) THEN Failed("ndim")
    ELSE IF arr.dtype # "bool" THEN Failed("dtype")
    ELSE [ok |-> TRUE, err |-> "", value |-> voxel_size * count_nonzero(arr)]

\* mask(arr, voxel_size): the three assertions in their order, then
\* np.multiply(voxel_size, np.count_nonzero(arr))
mask(arr, voxel_size) ==
    IF ~arr.ndarray THEN Failed("type")
    ELSE IF arr.dtype # "bool" THEN Failed("dtype")
    ELSE IF ~(ndim(arr) = 2 \/ ndim(arr) = 3) THEN Failed("ndim")
    ELSE [ok |-> TRUE, err |-> "", value |-> voxel_size * count_nonzero(arr)]

MaxCells == 4     \* arrays hold up to MaxCells elements
MaxVoxel == 3     \* voxel sizes are 1..MaxVoxel

RECURSIVE Product(_)
Product(shape) == IF shape = <<>> THEN 1 ELSE Head(shape) * Product(Tail(shape))

\* shapes of rank 1 to 4
Shapes ==
    { sh \in UNION { [1..k -> 1..MaxCells] : k \in 1..4 } : Product(sh) <= MaxCells }

VolArrays ==
    UNION { { Array("bool", sh, fl) : fl \in [1..Product(sh) -> {0, 1}] } : sh \in Shapes }
        \cup UNION { { Array("uint8", sh, fl) : fl \in [1..Product(sh) -> {0, 255}] } :
                     sh \in { t \in Shapes : Len(t) \in {1, 2} } }
        \cup { NotAnArray(<<1, 0>>) }

\* a 3 x 3 raster with every cell on
AllOn3x3 == Array("bool", <<3, 3>>, [i \in 1..9 |-> 1])

VolInit ==
    /\ v_pc = "call"
    /\ \/ v_arr \in VolArrays /\ v_size \in 1..MaxVoxel
       \/ v_arr = AllOn3x3 /\ v_size = 2
    /\ v_out = <<>>
    /\ v_out2 = <<>>
    /\ CompareIdle

\* mask(arr, voxel_size)
CallMask ==
    /\ v_pc = "call"
    /\ v_out' = mask(v_arr, v_size)
    /\ v_pc' = "again"
    /\ UNCHANGED <<v_arr, v_size, v_out2, compareVars>>
    /\ UNCHANGED <<docVars, coordVars, drawVars, dictVars>>

\* mask(arr, 2 * voxel_size) on the same array
CallMaskDoubled ==
    /\ v_pc = "again"
    /\ v_out2' = mask(v_arr, 2 * v_size)
    /\ v_pc' = "done"
    /\ UNCHANGED <<v_arr, v_size, v_out, compareVars>>
    /\ UNCHANGED <<docVars, coordVars, drawVars, dictVars>>

InitVol == VolInit /\ DocIdle /\ CoordIdle /\ DrawIdle /\ DictIdle

NextVol == CallMask \/ CallMaskDoubled

SpecVol == InitVol /\ [][NextVol]_vars

----------------------------------------------------------------------------
(* analysis/scripts/compare_volumes.py, scripts/compare_volumes.py: main,
   from the volume lists of the two collections to the combined mapping *)

MaxVisits == 2    \* volumes in the list of a patient

\* the lists the loops over the visits build: one volume per visit, so never empty
VolumeLists(values) == SeqsUpTo(values, MaxVisits) \ { <<>> }

\* a collection: patient 7 with any list, patient 8 with any list of one value,
\* patient 9 with one volume, each of them there or not
Restrict(f, S) == [x \in S |-> f[x]]
Totals ==
    { Restrict([pt \in {7, 8, 9} |-> IF pt = 7 THEN l7 ELSE IF pt = 8 THEN l8 ELSE l9],
               { pt \in {7, 8, 9} :
                    (IF pt = 7 THEN l7 ELSE IF pt = 8 THEN l8 ELSE l9) # <<>> }) :
        l7 \in VolumeLists({60, 100}) \cup { <<>> },
        l8 \in VolumeLists({60}) \cup { <<>> },
        l9 \in { <<>>, <<60>>, <<100>> } }

\* mutant: the volume of the latest visit is taken
LatestVolume(volumes) == volumes[Len(volumes)]

\* iwfs_volumes[0]
FirstVolume(volumes) == volumes[1]

abs(x) == IF x < 0 THEN -x ELSE x

CompareInit ==
    /\ k_pc = "check"
    /\ k_iwfs \in Totals
    /\ k_dess \in Totals
    /\ k_missing_iwfs = {}
    /\ k_missing_dess = {}
    /\ k_diff = <<>>
    /\ BmlIdle
    /\ v_pc = "idle" /\ v_arr = <<>> /\ v_size = 0 /\ v_out = <<>> /\ v_out2 = <<>>

\* Missing Data Check One: the two key differences
MissingDataCheck ==
    /\ k_pc = "check"
    /\ k_missing_iwfs' = DOMAIN k_dess \ DOMAIN k_iwfs
    /\ k_missing_dess' = DOMAIN k_iwfs \ DOMAIN k_dess
    /\ k_pc' = "diff"
    /\ UNCHANGED <<k_iwfs, k_dess, k_diff, bmlVars>>
    /\ UNCHANGED <<v_arr, v_size, v_out, v_out2, v_pc>>
    /\ UNCHANGED <<docVars, coordVars, drawVars, dictVars>>

\* for patient, iwfs_volumes in preds_iwfs_totals.items(): if patient in
\* preds_dess_totals.keys(): diff_iwfs_dess[patient] = abs(... [0] - ... [0])
IwfsMinusDess ==
    /\ k_pc = "diff"
    /\ k_diff' = [pt \in { q \in DOMAIN k_iwfs : q \in DOMAIN k_dess } |->
                    abs(FirstVolume(k_iwfs[pt]) - FirstVolume(k_dess[pt]))]
    /\ k_pc' = "done"
    /\ UNCHANGED <<k_iwfs, k_dess, k_missing_iwfs, k_missing_dess, bmlVars>>
    /\ UNCHANGED <<v_arr, v_size, v_out, v_out2, v_pc>>
    /\ UNCHANGED <<docVars, coordVars, drawVars, dictVars>>

InitCompare == CompareInit /\ DocIdle /\ CoordIdle /\ DrawIdle /\ DictIdle

NextCompare == MissingDataCheck \/ IwfsMinusDess

SpecCompare == InitCompare /\ [][NextCompare]_vars

----------------------------------------------------------------------------
(* analysis/scripts/compare_volumes.py: main, Missing Data Check Two and the
   input of the Pearson correlation *)

Patients == {7, 8, 9}

\* diff_iwfs_dess: an absolute difference for each patient of both collections
Differences ==
    UNION { [ps -> {0, 40}] : ps \in SUBSET Patients }

\* manual_bml_totals as the loop over the visits builds it: patient 7 with any
\* list, patients 8 and 9 with one volume, each of them there or not
BmlTotals ==
    { Restrict([pt \in Patients |-> IF pt = 7 THEN l7 ELSE IF pt = 8 THEN l8 ELSE l9],
               { pt \in Patients :
                    (IF pt = 7 THEN l7 ELSE IF pt = 8 THEN l8 ELSE l9) # <<>> }) :
        l7 \in VolumeLists({0, 30}) \cup { <<>> },
        l8 \in { <<>>, <<0>>, <<30>> },
        l9 \in { <<>>, <<30>> } }

\* mutant: the patients without BML are left out
SetToZeroSkipped(totals, missing) == totals

\* for p in sorted(missing_bml): manual_bml_totals[p] = [0, ]
SetToZero(totals, missing) ==
    [p \in DOMAIN totals \cup missing |->
        IF p \in missing THEN <<0>> ELSE totals[p]]

BmlInit ==
    /\ b_pc = "check"
    /\ b_diff \in Differences
    /\ b_bml_read \in BmlTotals
    /\ b_bml = b_bml_read
    /\ b_missing_bml = {}
    /\ b_missing_preds = {}
    /\ b_usable = 0
    /\ b_pairs = <<>>
    /\ k_pc = "idle" /\ k_iwfs = <<>> /\ k_dess = <<>>
    /\ k_missing_iwfs = {} /\ k_missing_dess = {} /\ k_diff = <<>>
    /\ v_pc = "idle" /\ v_arr = <<>> /\ v_size = 0 /\ v_out = <<>> /\ v_out2 = <<>>

\* Missing Data Check Two: the two key differences, the count printed as
\* usable, and the default of the patients without BML
MissingDataCheckTwo ==
    /\ b_pc = "check"
    /\ LET missing_bml == DOMAIN b_diff \ DOMAIN b_bml
           missing_preds == DOMAIN b_bml \ DOMAIN b_diff
           bml_scans_intersection == DOMAIN b_diff \cap DOMAIN b_bml
       IN /\ b_missing_bml' = missing_bml
          /\ b_missing_preds' = missing_preds
          /\ b_usable' = Cardinality(bml_scans_intersection) + Cardinality(missing_bml)
          /\ b_bml' = SetToZero(b_bml, missing_bml)
    /\ b_pc' = "pearson"
    /\ UNCHANGED <<b_diff, b_bml_read, b_pairs>>
    /\ UNCHANGED <<k_iwfs, k_dess, k_missing_iwfs, k_missing_dess, k_diff, k_pc>>
    /\ UNCHANGED <<v_arr, v_size, v_out, v_out2, v_pc>>
    /\ UNCHANGED <<docVars, coordVars, drawVars, dictVars>>

\* pearson_intersection and the loop appending to pearson_x and pearson_y
PearsonInput ==
    /\ b_pc = "pearson"
    /\ LET pearson_intersection == DOMAIN b_diff \cap DOMAIN b_bml
       IN b_pairs' = [patient \in pearson_intersection |->
                        [x |-> FirstVolume(b_bml[patient]), y |-> b_diff[patient]]]
    /\ b_pc' = "done"
    /\ UNCHANGED <<b_diff, b_bml_read, b_bml, b_missing_bml, b_missing_preds, b_usable>>
    /\ UNCHANGED <<k_iwfs, k_dess, k_missing_iwfs, k_missing_dess, k_diff, k_pc>>
    /\ UNCHANGED <<v_arr, v_size, v_out, v_out2, v_pc>>
    /\ UNCHANGED <<docVars, coordVars, drawVars, dictVars>>

InitBml == BmlInit /\ DocIdle /\ CoordIdle /\ DrawIdle /\ DictIdle

NextBml == MissingDataCheckTwo \/ PearsonInput

SpecBml == InitBml /\ [][NextBml]_vars

----------------------------------------------------------------------------
(* common/dictutils.py: update_nested_dict *)

\* a value of a nested dict: a leaf (anything that is no Mapping, or a pydicom
\* Dataset), or a dict, whose items are kept in insertion order
Leaf(v) == [leaf |-> TRUE, v |-> v, items |-> <<>>]
Dict(items) == [leaf |-> FALSE, v |-> 0, items |-> items]
Item(k, node) == [k |-> k, node |-> node]

Has(d, k) == \E i \in DOMAIN d.items : d.items[i].k = k
IndexOf(d, k) == CHOOSE i \in DOMAIN d.items : d.items[i].k = k
\* mutant: a value that is no dict counts as missing
GetDictOrFresh(d, k) ==
    IF Has(d, k) /\ ~d.items[IndexOf(d, k)].node.leaf
    THEN d.items[IndexOf(d, k)].node ELSE Dict(<<>>)

\* original.get(k, {})
Get(d, k) == IF Has(d, k) THEN d.items[IndexOf(d, k)].node ELSE Dict(<<>>)
\* original[k] = node: an old key keeps its place, a new key goes last
Put(d, k, node) ==
    IF Has(d, k)
    THEN Dict([d.items EXCEPT ![IndexOf(d, k)] = Item(k, node)])
    ELSE Dict(Append(d.items, Item(k, node)))

\* the loop over update.items(), on the object original, which is changed in
\* place. A leaf in the place of original has neither get nor item assignment:
\* the first item raises. ok = FALSE: node is original as the exception leaves it.
RECURSIVE UpdateItems(_, _)
UpdateItems(original, items) ==
    IF items = <<>> THEN [ok |-> TRUE, node |-> original]
    ELSE IF original.leaf THEN [ok |-> FALSE, node |-> original]
    ELSE LET k == Head(items).k
             v == Head(items).node
         IN  IF ~v.leaf
             THEN LET r == UpdateItems(Get(original, k), v.items)
                  IN  IF r.ok
                      THEN UpdateItems(Put(original, k, r.node), Tail(items))
                      ELSE [ok |-> FALSE,
                            node |-> IF Has(original, k)
                                     THEN Put(original, k, r.node) ELSE original]
             ELSE UpdateItems(Put(original, k, v), Tail(items))

\* mutant: dict.update, every value of update replaces what original holds
RECURSIVE PutAll(_, _)
PutAll(original, items) ==
    IF items = <<>> THEN original
    ELSE PutAll(Put(original, Head(items).k, Head(items).node), Tail(items))
UpdateNestedDictShallow(original, update) ==
    IF original.leaf /\ update.items # <<>> THEN [ok |-> FALSE, node |-> original]
    ELSE [ok |-> TRUE, node |-> PutAll(original, update.items)]

\* update_nested_dict(original, update): node is the object original after
\* the call, which is also what the call returns
update_nested_dict(original, update) == UpdateItems(original, update.items)

MaxEntries == 3   \* keys in a dictionary, those of its nested dictionaries included

DictKeys == {1, 2}
OldValue == 7     \* the leaves of the dictionary to update
NewValue == 8     \* the leaves of the update

\* the dictionaries with n keys in all and leaves of value v
RECURSIVE DictsOfSize(_, _)
Children(m, v) == IF m = 0 THEN { Leaf(v), Dict(<<>>) } ELSE DictsOfSize(m, v)
DictsOfSize(n, v) ==
    IF n = 0 THEN { Dict(<<>>) }
    ELSE { Dict(<<Item(k, c)>>) : k \in DictKeys, c \in Children(n - 1, v) }
           \cup UNION { { Dict(<<Item(ks[1], c1), Item(ks[2], c2)>>) :
                            ks \in { <<1, 2>>, <<2, 1>> },
                            c1 \in Children(m, v), c2 \in Children(n - 2 - m, v) } :
                        m \in 0..(n - 2) }

DictsUpTo(n, v) == UNION { DictsOfSize(m, v) : m \in 0..n }

DictInit ==
    /\ u_pc = "call"
    /\ u_original \in DictsUpTo(MaxEntries, OldValue)
    /\ u_update \in DictsUpTo(MaxEntries, NewValue)
    /\ u_before = u_original
    /\ u_out = <<>>
    /\ MergeIdle
    /\ StackIdle

\* result = update_nested_dict(original, update)
CallUpdateNestedDict ==
    /\ u_pc = "call"
    /\ LET r == update_nested_dict(u_original, u_update)
       IN  /\ u_original' = r.node
           /\ u_out' = IF r.ok THEN [ok |-> TRUE, value |-> r.node]
                               ELSE [ok |-> FALSE, value |-> <<>>]
    /\ u_pc' = "done"
    /\ UNCHANGED <<u_update, u_before, mergeVars, stackVars>>
    /\ UNCHANGED <<docVars, coordVars, drawVars, volVars>>

InitDict == DictInit /\ DocIdle /\ CoordIdle /\ DrawIdle /\ VolIdle

NextDict == CallUpdateNestedDict

SpecDict == InitDict /\ [][NextDict]_vars

----------------------------------------------------------------------------
(* update_nested_dict on three fragments *)

\* keys in the fragments b and c, those of their nested dictionaries included;
\* the fragment a holds one key less
MaxFragment == 2

LastValue == 9    \* the leaves of the fragment merged last

\* update_nested_dict(update_nested_dict(x, y), z); an exception of the inner
\* call leaves the expression
MergeTwice(x, y, z) ==
    LET inner == update_nested_dict(x, y)
    IN  IF inner.ok THEN update_nested_dict(inner.node, z)
        ELSE [ok |-> FALSE, node |-> inner.node]

\* mutant: the fragment merged first is merged once more at the end
MergeThenFirstAgain(x, y) ==
    LET r == update_nested_dict(x, y)
    IN  IF r.ok THEN update_nested_dict(r.node, x) ELSE r

\* update_nested_dict(x, y), the value of the expression
Merge(x, y) == update_nested_dict(x, y)

MergeInit ==
    /\ m_pc = "left"
    /\ m_a \in DictsUpTo(MaxFragment - 1, OldValue)
    /\ m_b \in DictsUpTo(MaxFragment, NewValue)
    /\ m_c \in DictsUpTo(MaxFragment, LastValue)
    /\ m_left = <<>>
    /\ m_right = <<>>
    /\ u_pc = "idle" /\ u_original = <<>> /\ u_update = <<>>
    /\ u_before = <<>> /\ u_out = <<>>
    /\ StackIdle

\* left = update_nested_dict(update_nested_dict(copy of a, b), c)
MergeLeftFirst ==
    /\ m_pc = "left"
    /\ m_left' = MergeTwice(m_a, m_b, m_c)
    /\ m_pc' = "right"
    /\ UNCHANGED <<m_a, m_b, m_c, m_right>>
    /\ UNCHANGED <<u_original, u_update, u_before, u_out, u_pc, stackVars>>
    /\ UNCHANGED <<docVars, coordVars, drawVars, volVars>>

\* right = update_nested_dict(copy of a, update_nested_dict(copy of b, c))
MergeRightFirst ==
    /\ m_pc = "right"
    /\ LET inner == Merge(m_b, m_c)
       IN  m_right' = IF inner.ok THEN Merge(m_a, inner.node)
                      ELSE [ok |-> FALSE, node |-> m_a]
    /\ m_pc' = "done"
    /\ UNCHANGED <<m_a, m_b, m_c, m_left>>
    /\ UNCHANGED <<u_original, u_update, u_before, u_out, u_pc, stackVars>>
    /\ UNCHANGED <<docVars, coordVars, drawVars, volVars>>

InitMerge == MergeInit /\ DocIdle /\ CoordIdle /\ DrawIdle /\ VolIdle

NextMerge == MergeLeftFirst \/ MergeRightFirst

SpecMerge == InitMerge /\ [][NextMerge]_vars

----------------------------------------------------------------------------
(* common/dictutils.py, common/imutils.py: visit_to_volume *)

MaxSlices == 2    \* slices of a visit have the identifiers 1..MaxSlices

\* np.array(visit_volume): the images of a list, stacked in the order of the list
Stack(images) == [leaf |-> TRUE, v |-> images, items |-> <<>>]

\* mutant: the images are stacked by ascending slice identifier
RECURSIVE ImagesBySliceId(_)
ImagesBySliceId(slice_items) ==
    IF slice_items = <<>> THEN <<>>
    ELSE LET low == CHOOSE i \in DOMAIN slice_items :
                        \A j \in DOMAIN slice_items : slice_items[i].k <= slice_items[j].k
         IN  <<slice_items[low].node.v>>
                 \o ImagesBySliceId([i \in 1..(Len(slice_items) - 1) |->
                        IF i < low THEN slice_items[i] ELSE slice_items[i + 1]])

\* visit_volume = []; for slice_id, im in slice_ids.items(): visit_volume.append(im)
VisitImages(slice_items) == [i \in DOMAIN slice_items |-> slice_items[i].node.v]

\* the loop over visits.items() of one patient, on the dictionary result
RECURSIVE StackVisits(_, _, _)
StackVisits(result, patient, visit_items) ==
    IF visit_items = <<>> THEN result
    ELSE LET visit == Head(visit_items).k
             visit_volume == Stack(VisitImages(Head(visit_items).node.items))
             update == Dict(<<Item(patient, Dict(<<Item(visit, visit_volume)>>))>>)
         IN  StackVisits(update_nested_dict(result, update).node, patient,
                         Tail(visit_items))

\* the loop over nested_dict.items()
RECURSIVE StackPatients(_, _)
StackPatients(result, patient_items) ==
    IF patient_items = <<>> THEN result
    ELSE StackPatients(StackVisits(result, Head(patient_items).k,
                                   Head(patient_items).node.items),
                       Tail(patient_items))

\* visit_to_volume(nested_dict): the assertion on the type, then the loops
visit_to_volume(nested_dict) ==
    IF nested_dict.leaf THEN [ok |-> FALSE, value |-> Dict(<<>>)]
    ELSE [ok |-> TRUE, value |-> StackPatients(Dict(<<>>), nested_dict.items)]

\* an image, told from every other by the patient, visit and slice it is of
ImageOf(patient, visit, slice_id) == 100 * patient + 10 * visit + slice_id

\* the sequences without repetition of at most n elements of S
DistinctSeqs(S, n) ==
    { q \in SeqsUpTo(S, n) : \A i, j \in DOMAIN q : i # j => q[i] # q[j] }

SliceMap(patient, visit, ids) ==
    Dict([i \in DOMAIN ids |-> Item(ids[i], Leaf(ImageOf(patient, visit, ids[i])))])

\* the visits of a patient: up to n visits with up to MaxSlices slices each, in
\* every insertion order
VisitMaps(patient, n) ==
    UNION { { Dict([i \in DOMAIN vs |-> Item(vs[i], SliceMap(patient, vs[i], ids[i]))]) :
                ids \in [DOMAIN vs -> DistinctSeqs(1..MaxSlices, MaxSlices)] } :
            vs \in DistinctSeqs(DictKeys, n) }

\* the argument: no dictionary, no patient, one patient, or two patients of
\* which the second has at most one visit
StackInit ==
    /\ s_pc = "call"
    /\ \/ s_nested = Leaf(OldValue)
       \/ s_nested = Dict(<<>>)
       \/ \E pt \in DictKeys : \E vm \in VisitMaps(pt, 2) :
             s_nested = Dict(<<Item(pt, vm)>>)
       \/ \E ps \in { <<1, 2>>, <<2, 1>> } :
             \E vm1 \in VisitMaps(ps[1], 2) : \E vm2 \in VisitMaps(ps[2], 1) :
                s_nested = Dict(<<Item(ps[1], vm1), Item(ps[2], vm2)>>)
    /\ s_out = <<>>
    /\ SeriesIdle
    /\ u_pc = "idle" /\ u_original = <<>> /\ u_update = <<>>
    /\ u_before = <<>> /\ u_out = <<>>
    /\ MergeIdle

\* volumes = visit_to_volume(nested_dict)
CallVisitToVolume ==
    /\ s_pc = "call"
    /\ s_out' = visit_to_volume(s_nested)
    /\ s_pc' = "done"
    /\ UNCHANGED <<s_nested, seriesVars>>
    /\ UNCHANGED <<u_original, u_update, u_before, u_out, u_pc, mergeVars>>
    /\ UNCHANGED <<docVars, coordVars, drawVars, volVars>>

InitStack == StackInit /\ DocIdle /\ CoordIdle /\ DrawIdle /\ VolIdle

NextStack == CallVisitToVolume

SpecStack == InitStack /\ [][NextStack]_vars

----------------------------------------------------------------------------
(* common/files.py: read_image_series, the loop that merges one image per file
   (common/dictutils.py: slices_to_mask merges the same way) *)

MaxFiles == 3     \* files the glob lists

\* what the name and the content of a conforming file give
Fragment(patient, visit, slice_id, im) ==
    [patient |-> patient, visit |-> visit, slice_id |-> slice_id, im |-> im]
Fragments ==
    { Fragment(pt, v, s, im) :
        pt \in DictKeys, v \in DictKeys, s \in DictKeys, im \in {OldValue, NewValue} }

\* {patient: {visit: {slice_id: im}}}
FragmentDict(f) ==
    Dict(<<Item(f.patient,
                Dict(<<Item(f.visit, Dict(<<Item(f.slice_id, Leaf(f.im))>>))>>))>>)

\* mutant: a slice that is already there keeps its image
AddImageKeepsFirst(result, f) ==
    IF Has(result, f.patient) /\ Has(Get(result, f.patient), f.visit)
          /\ Has(Get(Get(result, f.patient), f.visit), f.slice_id)
    THEN [ok |-> TRUE, node |-> result]
    ELSE update_nested_dict(result, FragmentDict(f))

\* du.update_nested_dict(result, {patient: {visit: {slice_id: im}}})
AddImage(result, f) == update_nested_dict(result, FragmentDict(f))

\* result = {}
SeriesInit ==
    /\ g_result = Dict(<<>>)
    /\ g_prev = Dict(<<>>)
    /\ g_log = <<>>
    /\ g_seen = 0
    /\ g_swapped = Dict(<<>>)
    /\ g_ok = TRUE
    /\ s_pc = "idle" /\ s_nested = <<>> /\ s_out = <<>>
    /\ u_pc = "idle" /\ u_original = <<>> /\ u_update = <<>>
    /\ u_before = <<>> /\ u_out = <<>>
    /\ MergeIdle

\* one pass of the loop over the files, for a name that conforms; g_swapped
\* is what the latest two fragments give when merged in the other order
ReadImage ==
    /\ g_ok
    /\ g_seen < MaxFiles
    /\ \E f \in Fragments :
          LET r == AddImage(g_result, f)
              other == IF g_log = <<>> THEN r
                       ELSE LET first == AddImage(g_prev, f)
                            IN  IF ~first.ok THEN first
                                ELSE AddImage(first.node, g_log[Len(g_log)])
          IN  /\ g_result' = r.node
              /\ g_ok' = (r.ok /\ other.ok)
              /\ g_swapped' = other.node
              /\ g_log' = Append(g_log, f)
    /\ g_prev' = g_result
    /\ g_seen' = g_seen + 1
    /\ UNCHANGED <<s_nested, s_out, s_pc>>
    /\ UNCHANGED <<u_original, u_update, u_before, u_out, u_pc, mergeVars>>
    /\ UNCHANGED <<docVars, coordVars, drawVars, volVars>>

\* one pass of the loop for a name that does not conform: continue
SkipFile ==
    /\ g_ok
    /\ g_seen < MaxFiles
    /\ g_seen' = g_seen + 1
    /\ UNCHANGED <<g_result, g_prev, g_log, g_swapped, g_ok>>
    /\ UNCHANGED <<s_nested, s_out, s_pc>>
    /\ UNCHANGED <<u_original, u_update, u_before, u_out, u_pc, mergeVars>>
    /\ UNCHANGED <<docVars, coordVars, drawVars, volVars>>

InitSeries == SeriesInit /\ DocIdle /\ CoordIdle /\ DrawIdle /\ VolIdle

NextSeries == ReadImage \/ SkipFile

SpecSeries == InitSeries /\ [][NextSeries]_vars

----------------------------------------------------------------------------
(* What the claims say of a file, stated on the lines themselves *)

IsWord(line, s) == line.toks = << <<W(s)>> >>
IsNumberLine(line) ==
    Len(line.toks) = 1 /\ Len(line.toks[1]) = 1 /\ line.toks[1][1].isInt
NumberOf(line) == line.toks[1][1].n

HasValidHeader(f) == Len(f) >= 9 /\ \A i \in 5..8 : IsNumberLine(f[i])
BodyOf(f) == SubSeq(f, 10, Len(f))

\* the first index from `from` on whose line is the word s, Len(q) + 1 if none
FirstWord(q, from, s) ==
    IF \E i \in from..Len(q) : IsWord(q[i], s)
    THEN CHOOSE i \in from..Len(q) :
            IsWord(q[i], s) /\ \A j \in from..(i - 1) : ~IsWord(q[j], s)
    ELSE Len(q) + 1

\* q starts with a slice-number line and an open bracket follows somewhere
BlockAhead(q) ==
    /\ Len(q) >= 2
    /\ IsNumberLine(q[1])
    /\ ~(q[2].nl = FALSE /\ IsWord(q[2], "{"))
    /\ FirstWord(q, 2, "{") <= Len(q)

OpenAt(q) == FirstWord(q, 2, "{")
CloseAt(q) == FirstWord(q, OpenAt(q) + 1, "}")
Between(q) == SubSeq(q, OpenAt(q) + 1, CloseAt(q) - 1)
AfterBlock(q) == SubSeq(q, CloseAt(q) + 1, Len(q))
NotOpen(line) == ~IsWord(line, "{")

\* the segments a valid coordinate line stands for
SegmentsOf(line) ==
    [i \in 1..(Len(line.toks) - 1) |->
        [y |-> line.toks[1][1].n - 3,
         x1 |-> line.toks[i + 1][1].n - 1,
         x2 |-> line.toks[i + 1][2].n - 1]]

RECURSIVE AllSegments(_)
AllSegments(ls) ==
    IF ls = <<>> THEN <<>> ELSE SegmentsOf(Head(ls)) \o AllSegments(Tail(ls))

AllValid(ls) == \A i \in DOMAIN ls : ValidCoordText(ls[i].toks)

Last(sq) == sq[Len(sq)]
OnCells(img) == { rc \in DOMAIN img : img[rc] = 255 }

----------------------------------------------------------------------------
(* C2 *)

\* every index (height - y, x) of the slice lies inside the array of
\* image_width rows and image_height columns
SegmentsInside(slc, meta) ==
    \A k \in DOMAIN slc.coordinates :
        \A x \in slc.coordinates[k].x1 .. slc.coordinates[k].x2 :
            /\ 0 <= meta.image_height - slc.coordinates[k].y
            /\ meta.image_height - slc.coordinates[k].y < meta.image_width
            /\ 0 <= x /\ x < meta.image_height

CoveredBy(slc, meta, r, c) ==
    \E k \in DOMAIN slc.coordinates :
        /\ r = meta.image_height - slc.coordinates[k].y
        /\ slc.coordinates[k].x1 <= c /\ c <= slc.coordinates[k].x2

\* C2: when every segment maps to indices inside the canvas, cell (r, c) of the
\* grid is on exactly if r = height - y and x1 <= c <= x2 for a segment of the
\* slice, and off otherwise; segment (10, 5, 8) on a 20 x 20 canvas turns on
\* row 10, columns 5..8 and nothing else
C2_RasterOfSegments ==
    (d_pc = "done" /\ SegmentsInside(d_slc, d_meta)) =>
        /\ d_out.ok
        /\ DOMAIN d_out.image
              = (0..(d_meta.image_width - 1)) \X (0..(d_meta.image_height - 1))
        /\ \A rc \in DOMAIN d_out.image :
              /\ d_out.image[rc] \in {0, 255}
              /\ d_out.image[rc] = 255 <=> CoveredBy(d_slc, d_meta, rc[1], rc[2])
        /\ (<<d_slc, d_meta>> = ExampleRaster =>
              OnCells(d_out.image) = { <<10, 5>>, <<10, 6>>, <<10, 7>>, <<10, 8>> })

\* two segments on different rows of a canvas that is not square were drawn
C2_Witness ==
    /\ d_pc = "done"
    /\ SegmentsInside(d_slc, d_meta)
    /\ d_meta.image_width # d_meta.image_height
    /\ Len(d_slc.coordinates) = 2
    /\ d_slc.coordinates[1].y # d_slc.coordinates[2].y
    /\ Cardinality(OnCells(d_out.image)) >= 2

----------------------------------------------------------------------------
(* C3 *)

\* a body that is one slice block: number line, lines without "{", "{", valid
\* coordinate lines, "}" as its last line
OneBlockBody(b) ==
    /\ BlockAhead(b)
    /\ CloseAt(b) = Len(b)
    /\ AllValid(Between(b))

CellsOf(segs, height) ==
    UNION { { <<height - segs[k].y, c>> : c \in segs[k].x1 .. segs[k].x2 } :
            k \in DOMAIN segs }

InsideCanvas(cells, width, height) ==
    \A rc \in cells : rc[1] \in 0..(width - 1) /\ rc[2] \in 0..(height - 1)

ExampleFile ==
    HeaderLines(NumToks(10), NumToks(10), NumToks(1), NumToks(1))
        \o << Num1, Open, CoordA, Close >>

\* C3: a file with a valid header and one slice block whose runs lie inside the
\* canvas gives exactly one raster, keyed by the slice number, with as many on
\* cells as the runs cover; width 10, height 10, slice 1, line "13 2.4" turns
\* on row 0, columns 1..3 and nothing else
C3_OneBlockEndToEnd ==
    (/\ pc \in {"done", "raised"}
     /\ HasValidHeader(orig_lines)
     /\ OneBlockBody(BodyOf(orig_lines))
     /\ InsideCanvas(CellsOf(AllSegments(Between(BodyOf(orig_lines))),
                             NumberOf(orig_lines[6])),
                     NumberOf(orig_lines[5]), NumberOf(orig_lines[6])))
    => /\ pc = "done"
       /\ DOMAIN data = { NumberOf(BodyOf(orig_lines)[1]) }
       /\ Cardinality(OnCells(data[NumberOf(BodyOf(orig_lines)[1])]))
             = Cardinality(CellsOf(AllSegments(Between(BodyOf(orig_lines))),
                                   NumberOf(orig_lines[6])))
       /\ (orig_lines = ExampleFile =>
              OnCells(data[1]) = { <<0, 1>>, <<0, 2>>, <<0, 3>> })

\* the example file has been read to its end
C3_Witness ==
    /\ pc = "done"
    /\ orig_lines = ExampleFile
    /\ DOMAIN data = {1}
    /\ Cardinality(OnCells(data[1])) = 3

----------------------------------------------------------------------------
(* C4 *)

OnCount(arr) == Cardinality({ i \in 1..Len(arr.flat) : arr.flat[i] = 1 })

\* C4: for a boolean array of rank 2 or 3 and a voxel size s, mask gives s
\* times the number of on cells, so the doubled voxel size gives the double;
\* a 3 x 3 raster with every cell on and voxel size 2 gives 18
C4_VolumeIsVoxelTimesCount ==
    (/\ v_pc = "done"
     /\ v_arr.ndarray /\ v_arr.dtype = "bool" /\ Len(v_arr.shape) \in {2, 3})
    => /\ v_out.ok /\ v_out2.ok
       /\ v_out.value = v_size * OnCount(v_arr)
       /\ v_out2.value = 2 * v_out.value
       /\ ((v_arr = AllOn3x3 /\ v_size = 2) => v_out.value = 18)

\* a rank 3 array with on and off cells was measured with a voxel size above 1
C4_Witness ==
    /\ v_pc = "done"
    /\ v_arr.ndarray /\ v_arr.dtype = "bool" /\ Len(v_arr.shape) = 3
    /\ v_size > 1
    /\ OnCount(v_arr) >= 2 /\ OnCount(v_arr) < Len(v_arr.flat)
    /\ v_out.ok /\ v_out.value = v_size * OnCount(v_arr)

----------------------------------------------------------------------------
(* C5 *)

Paths == SeqsUpTo(DictKeys, MaxEntries) \ { <<>> }

Absent == [present |-> FALSE, node |-> Dict(<<>>)]

\* what a dictionary holds at a path of keys
RECURSIVE At(_, _)
At(node, path) ==
    IF path = <<>> THEN [present |-> TRUE, node |-> node]
    ELSE IF node.leaf THEN Absent
    ELSE IF \E i \in DOMAIN node.items : node.items[i].k = Head(path)
    THEN At(node.items[CHOOSE i \in DOMAIN node.items : node.items[i].k = Head(path)].node,
            Tail(path))
    ELSE Absent

LeafAt(node, path) == At(node, path).present /\ At(node, path).node.leaf
DictAt(node, path) == At(node, path).present /\ ~At(node, path).node.leaf

\* the path is a leaf path of the update or lies below one
OnOrBelowLeafOf(update, path) ==
    \E n \in 1..Len(path) : LeafAt(update, SubSeq(path, 1, n))

\* original holds a leaf where update holds a mapping with keys: the call
\* writes into the leaf
LeafUnderMapping(original, update) ==
    \E p \in Paths :
        LeafAt(original, p) /\ DictAt(update, p) /\ At(update, p).node.items # <<>>

\* the dictionary after the call is the overlay of the update on the
\* dictionary before it, and is what the call returned
IsOverlay ==
    /\ u_out.ok
    /\ u_out.value = u_original
    /\ \A p \in Paths :
          /\ LeafAt(u_update, p) => At(u_original, p) = At(u_update, p)
          /\ (DictAt(u_update, p) /\ ~At(u_before, p).present) => DictAt(u_original, p)
          /\ (At(u_before, p).present /\ ~OnOrBelowLeafOf(u_update, p)) =>
                /\ LeafAt(u_before, p) => At(u_original, p) = At(u_before, p)
                /\ DictAt(u_before, p) => DictAt(u_original, p)
          /\ At(u_original, p).present =>
                (At(u_before, p).present \/ At(u_update, p).present)

----------------------------------------------------------------------------
(* C6 *)

\* C6: a "Tibia" line where the slice number is expected makes
\* extract_slice_mask return None, only that line consumed, and ends the slice
\* loop; a valid header followed at once by "Tibia" gives no slice, no raster
\* and no exception
C6_TibiaStops ==
    /\ (last_ret # "nocall" /\ IsWord(prev_lines[1], "Tibia")) =>
          /\ last_ret = "none"
          /\ pc \in {"draw", "done", "raised"}
          /\ file_lines = Tail(prev_lines)
    /\ (/\ pc \in {"draw", "done", "raised"}
        /\ HasValidHeader(orig_lines)
        /\ Len(orig_lines) >= 10
        /\ IsWord(orig_lines[10], "Tibia")) =>
          /\ pc # "raised"
          /\ slices = <<>>
          /\ last_ret = "none"
          /\ pc = "done" => data = <<>>

\* a file whose header is followed by "Tibia" and more lines has been read
C6_Witness ==
    /\ pc = "done"
    /\ HasValidHeader(orig_lines)
    /\ Len(orig_lines) > 10
    /\ IsWord(orig_lines[10], "Tibia")
    /\ last_ret = "none"
    /\ data = <<>>

----------------------------------------------------------------------------
(* C7 *)

\* C7: only the last decoded slice can have a number >= end_slice; once it is
\* decoded the loop is left and neither the queue nor the slices change again;
\* after a slice below end_slice, with lines left, the loop goes on
C7_StopsAtEndSlice ==
    /\ [](/\ \A i \in 1..(Len(slices) - 1) :
                slices[i].slice_number < metadata.end_slice
          /\ (Len(slices) > 0 /\ Last(slices).slice_number >= metadata.end_slice)
                => pc \in {"draw", "done", "raised"}
          /\ (/\ last_ret = "slice"
              /\ Last(slices).slice_number < metadata.end_slice
              /\ Len(file_lines) > 0) => pc = "loop")
    /\ [][(Len(slices) > 0 /\ Last(slices).slice_number >= metadata.end_slice)
            => (file_lines' = file_lines /\ slices' = slices)]_vars

\* the end slice was decoded after an earlier one and a further block is
\* still in the queue
C7_Witness ==
    /\ pc = "done"
    /\ Len(slices) = 2
    /\ slices[1].slice_number < metadata.end_slice
    /\ slices[2].slice_number >= metadata.end_slice
    /\ BlockAhead(file_lines)
    /\ Cardinality(DOMAIN data) = 2

----------------------------------------------------------------------------
(* C8 *)

\* C8 as claimed: after a slice-number line with no "{" line up to the end of
\* the input, the call produces no slice
C8_NoSliceWithoutBracket ==
    (/\ last_ret # "nocall"
     /\ IsNumberLine(prev_lines[1])
     /\ \A i \in 2..Len(prev_lines) : ~IsWord(prev_lines[i], "{"))
    => last_ret # "slice"

----------------------------------------------------------------------------
(* C9 *)

\* what the call gives for a block: the slice of the lines ls, or an exception
BlockOutcome(q, ls) ==
    /\ file_lines = AfterBlock(q)
    /\ IF AllValid(ls)
       THEN /\ last_ret = "slice"
            /\ Last(slices) = [slice_number |-> NumberOf(q[1]),
                               coordinates |-> AllSegments(ls)]
       ELSE last_ret = "raise"

\* C9 as claimed: every line between the open bracket and the first "}" is
\* collected and decoded
C9_EveryLineCollected ==
    (last_ret # "nocall" /\ BlockAhead(prev_lines))
        => BlockOutcome(prev_lines, Between(prev_lines))

\* C9 amended: the lines between the open bracket and the first "}" (or the end
\* of the input) that are not themselves "{" are collected and decoded in
\* order; the queue is left at the line after the "}"
C9_LinesButBracketsCollected ==
    (last_ret # "nocall" /\ BlockAhead(prev_lines))
        => BlockOutcome(prev_lines, SelectSeq(Between(prev_lines), NotOpen))

\* a block of two different coordinate lines was decoded and lines are left
C9_Witness ==
    /\ last_ret = "slice"
    /\ BlockAhead(prev_lines)
    /\ Len(Between(prev_lines)) = 2
    /\ Between(prev_lines)[1] # Between(prev_lines)[2]
    /\ Len(Last(slices).coordinates) = 3
    /\ CloseAt(prev_lines) < Len(prev_lines)
    /\ file_lines = AfterBlock(prev_lines)

----------------------------------------------------------------------------
(* C10 *)

\* q starts with a slice block that holds a malformed coordinate line
MalformedBlockAhead(q) ==
    BlockAhead(q) /\ ~AllValid(SelectSeq(Between(q), NotOpen))

\* C10 as claimed: no slice is decoded after a block with a malformed line
C10_HaltsAtMalformedLine ==
    [][(last_ret = "raise" /\ MalformedBlockAhead(prev_lines)) => slices' = slices]_vars

\* C10 amended: the slice with the malformed line is dropped, the exception is
\* caught, and the loop goes on with the line after the block
C10_SkipsMalformedSlice ==
    [][(pc = "loop" /\ MalformedBlockAhead(file_lines))
          => /\ pc' = "loop"
             /\ last_ret' = "raise"
             /\ slices' = slices
             /\ file_lines' = AfterBlock(file_lines)]_vars

\* a block was decoded after a block with a malformed line was dropped
C10_Witness ==
    /\ pc = "done"
    /\ \E k \in 10..Len(orig_lines) :
          /\ MalformedBlockAhead(SubSeq(orig_lines, k, Len(orig_lines)))
          /\ prev_lines = AfterBlock(SubSeq(orig_lines, k, Len(orig_lines)))
    /\ last_ret = "slice"
    /\ Len(slices) >= 1
    /\ DOMAIN data # {}

----------------------------------------------------------------------------
(* C11 *)

SliceNumbers(ss) == { ss[i].slice_number : i \in DOMAIN ss }

AllInside(ss, meta) == \A i \in DOMAIN ss : SegmentsInside(ss[i], meta)

\* C11 as claimed: when a decoded slice has a segment whose index
\* (height - y, x) is outside the canvas, read_masks_from_txt still returns,
\* with a raster for every decoded slice
C11_OutOfCanvasNeverFatal ==
    (pc \in {"done", "raised"} /\ slices # <<>> /\ ~AllInside(slices, metadata))
        => (pc = "done" /\ DOMAIN data = SliceNumbers(slices))

----------------------------------------------------------------------------
(* C12 *)

\* the line is neither "Tibia" nor an integer
NotSliceNumber(line) == ~IsWord(line, "Tibia") /\ ~IsNumberLine(line)

\* C12: a line that is neither "Tibia" nor an integer where a slice number is
\* expected makes extract_slice_mask return None without an exception, that
\* line being the only one consumed, and ends the loop with the slices decoded
\* so far; read_masks_from_txt then returns the rasters of exactly these
\* slices (slices that lie inside the canvas: drawing one outside it raises)
C12_HaltsAtNonNumber ==
    /\ [][(pc = "loop" /\ Len(file_lines) > 0 /\ NotSliceNumber(file_lines[1]))
            => /\ last_ret' = "none"
               /\ pc' = "draw"
               /\ file_lines' = Tail(file_lines)
               /\ slices' = slices]_vars
    /\ []((/\ pc \in {"done", "raised"}
           /\ last_ret = "none"
           /\ NotSliceNumber(prev_lines[1])
           /\ AllInside(slices, metadata))
          => (pc = "done" /\ DOMAIN data = SliceNumbers(slices)))

\* a file was read to its end after a slice was decoded and the loop ended at
\* a line that is no slice number, with lines left behind it
C12_Witness ==
    /\ pc = "done"
    /\ last_ret = "none"
    /\ NotSliceNumber(prev_lines[1])
    /\ file_lines = Tail(prev_lines)
    /\ Len(slices) = 1
    /\ DOMAIN data = SliceNumbers(slices)

----------------------------------------------------------------------------
(* C13 *)

\* C13: on a queue of at least 9 lines whose 5th to 8th lines are integers,
\* extract_mask_metadata takes exactly the first 9 lines off the queue and
\* gives case name, case prefix, direction, width, height, start slice and end
\* slice from the lines 1, 2, 3, 5, 6, 7 and 8, trimmed; what the lines 4 and 9
\* hold has no part in the result
C13_HeaderOfNineLines ==
    [][(pc = "start" /\ HasValidHeader(file_lines))
          => /\ pc' = "loop"
             /\ file_lines' = SubSeq(file_lines, 10, Len(file_lines))
             /\ metadata' = [case_name |-> file_lines[1].toks,
                             case_prefix |-> file_lines[2].toks,
                             direction |-> file_lines[3].toks,
                             image_width |-> NumberOf(file_lines[5]),
                             image_height |-> NumberOf(file_lines[6]),
                             start_slice |-> NumberOf(file_lines[7]),
                             end_slice |-> NumberOf(file_lines[8])]]_vars

\* the header of a file whose 4th line is a number and whose 9th line is
\* "Tibia" was read, and the lines after it are still in the queue
C13_Witness ==
    /\ pc = "loop"
    /\ IsNumberLine(orig_lines[4])
    /\ IsWord(orig_lines[9], "Tibia")
    /\ file_lines = BodyOf(orig_lines)
    /\ Len(file_lines) > 0
    /\ metadata.image_width = 12 /\ metadata.image_height = 10
    /\ metadata.start_slice = 1 /\ metadata.end_slice = 2
    /\ metadata.case_name = WordToks("9000099")

----------------------------------------------------------------------------
(* C14 *)

\* no slice decoded after the i-th has its number
LastOfItsNumber(ss, i) ==
    \A j \in (i + 1)..Len(ss) : ss[j].slice_number # ss[i].slice_number

\* C14: the result of read_masks_from_txt has one entry for each slice number
\* decoded, however many blocks have that number, and the entry is the raster
\* of the last block decoded with it
C14_LastBlockOfANumberWins ==
    pc = "done" =>
        /\ DOMAIN data = SliceNumbers(slices)
        /\ \A i \in DOMAIN slices :
              (LastOfItsNumber(slices, i) /\ SegmentsInside(slices[i], metadata)) =>
                  OnCells(data[slices[i].slice_number])
                      = CellsOf(slices[i].coordinates, metadata.image_height)

\* two blocks with the same number and different runs were decoded and drawn
C14_Witness ==
    /\ pc = "done"
    /\ Len(slices) = 2
    /\ slices[1].slice_number = slices[2].slice_number
    /\ Cardinality(DOMAIN data) = 1
    /\ CellsOf(slices[1].coordinates, metadata.image_height)
          # CellsOf(slices[2].coordinates, metadata.image_height)
    /\ OnCells(data[slices[2].slice_number])
          = CellsOf(slices[2].coordinates, metadata.image_height)
    /\ OnCells(data[slices[2].slice_number]) # {}

----------------------------------------------------------------------------
(* C15 *)

RowNotInteger(toks) == ~(Len(toks[1]) = 1 /\ toks[1][1].isInt)
\* a pair token with exactly one period has two halves
NotOnePeriod(p) == Len(p) # 2
HalfNotInteger(p) == \E h \in DOMAIN p : ~p[h].isInt

\* C15: _extract_coordinates raises, and gives no segment at all, whenever the
\* row token is no integer, a pair token has a half that is no integer, or a
\* pair token does not hold exactly one period
C15_FailsOnMalformedLine ==
    (/\ c_pc = "done"
     /\ \/ RowNotInteger(c_line)
        \/ \E i \in 2..Len(c_line) : NotOnePeriod(c_line[i]) \/ HalfNotInteger(c_line[i]))
    => (~c_out.ok /\ c_out.values = <<>>)

\* a line whose first pair is well formed and whose second pair has no period
\* was refused
C15_Witness ==
    /\ c_pc = "done"
    /\ ~RowNotInteger(c_line)
    /\ Len(c_line) = 3
    /\ ~NotOnePeriod(c_line[2]) /\ ~HalfNotInteger(c_line[2])
    /\ NotOnePeriod(c_line[3]) /\ ~HalfNotInteger(c_line[3])
    /\ ~c_out.ok

----------------------------------------------------------------------------
(* C16 *)

\* C16: when both groupings of the merge of a, b and c go through, they give
\* the same dictionary, leaf for leaf, and a leaf path of both b and c holds
\* the value of c, which was merged last
C16_GroupingAndLastWrite ==
    (m_pc = "done" /\ m_left.ok /\ m_right.ok) =>
        /\ \A p \in Paths :
              /\ At(m_left.node, p).present = At(m_right.node, p).present
              /\ LeafAt(m_left.node, p) = LeafAt(m_right.node, p)
              /\ LeafAt(m_left.node, p) => At(m_left.node, p) = At(m_right.node, p)
              /\ (LeafAt(m_b, p) /\ LeafAt(m_c, p)) =>
                    /\ At(m_left.node, p).node = Leaf(LastValue)
                    /\ At(m_right.node, p).node = Leaf(LastValue)
        /\ m_left.node = m_right.node

\* a leaf of a was written by b and by c, and a leaf that only b has is in
\* both results
C16_Witness ==
    /\ m_pc = "done" /\ m_left.ok /\ m_right.ok
    /\ \E p \in Paths :
          /\ LeafAt(m_a, p) /\ LeafAt(m_b, p) /\ LeafAt(m_c, p)
          /\ At(m_left.node, p).node = Leaf(LastValue)
    /\ \E q \in Paths :
          /\ LeafAt(m_b, q) /\ ~At(m_a, q).present /\ ~At(m_c, q).present
          /\ At(m_right.node, q).node = Leaf(NewValue)

----------------------------------------------------------------------------
(* C17 *)

KeysOf(d) == { d.items[i].k : i \in DOMAIN d.items }

\* the images of a slice mapping in its iteration order
InIterationOrder(slice_ids) == [i \in DOMAIN slice_ids.items |-> slice_ids.items[i].node.v]

\* every visit of the input has its stack in the output, one element per
\* slice in the iteration order of the slices, and the output has no other visit
VisitsStacked ==
    \A pt \in DictKeys : \A vi \in DictKeys :
        /\ At(s_out.value, <<pt, vi>>).present = At(s_nested, <<pt, vi>>).present
        /\ At(s_nested, <<pt, vi>>).present =>
              /\ LeafAt(s_out.value, <<pt, vi>>)
              /\ At(s_out.value, <<pt, vi>>).node.v
                    = InIterationOrder(At(s_nested, <<pt, vi>>).node)

----------------------------------------------------------------------------
(* C18 *)

\* C18: for an array, mask fails on the dtype when the array is not boolean,
\* whatever its rank, fails on the rank when a boolean array has a rank other
\* than 2 and 3, and gives a value only for a boolean array of rank 2 or 3;
\* no call changes the array
C18_FailsOnDtypeThenRank ==
    /\ []((v_pc \in {"again", "done"} /\ v_arr.ndarray) =>
            /\ v_arr.dtype # "bool" => (~v_out.ok /\ v_out.err = "dtype")
            /\ (v_arr.dtype = "bool" /\ Len(v_arr.shape) \notin {2, 3})
                  => (~v_out.ok /\ v_out.err = "ndim")
            /\ v_out.ok => (v_arr.dtype = "bool" /\ Len(v_arr.shape) \in {2, 3}))
    /\ [][v_arr' = v_arr]_vars

\* an array that is not boolean and has rank 1 was refused for its dtype
C18_Witness ==
    /\ v_pc = "done"
    /\ v_arr.ndarray /\ v_arr.dtype = "uint8" /\ Len(v_arr.shape) = 1
    /\ ~v_out.ok /\ v_out.err = "dtype"
    /\ ~v_out2.ok

----------------------------------------------------------------------------
(* C19 *)

\* the off cells of m that an off cell c is joined to through 4-adjacent off cells
RECURSIVE OffRegion(_, _)
OffRegion(region, m) ==
    LET more == { d \in DOMAIN m : /\ d \notin region
                                   /\ m[d] = 0
                                   /\ \E e \in region : d \in Neighbours(e) }
    IN  IF more = {} THEN region ELSE OffRegion(region \cup more, m)

\* a cell on the border of the grid
OnBorder(c, m) == \E d \in Neighbours(c) : d \notin DOMAIN m

\* the off cell c can be reached from the border through 4-adjacent off cells
ReachedFromBorder(c, m) == \E d \in OffRegion({c}, m) : OnBorder(d, m)

\* C19: fill_mask(fill_mask(m)) = fill_mask(m); every cell that is on in m is
\* on in fill_mask(m); an off cell of m is on in fill_mask(m) exactly if it
\* cannot be reached from the border of the grid through 4-adjacent off cells;
\* the mask given to fill_mask is not changed
C19_FillIdempotentMonotone ==
    /\ [](f_pc \in {"again", "done"} =>
            /\ DOMAIN f_once = DOMAIN f_mask
            /\ \A c \in DOMAIN f_mask :
                  /\ f_once[c] \in {0, 255}
                  /\ f_mask[c] # 0 => f_once[c] = 255
                  /\ f_mask[c] = 0 =>
                        (f_once[c] = 255 <=> ~ReachedFromBorder(c, f_mask)))
    /\ [](f_pc = "done" => f_twice = f_once)
    /\ [][f_mask' = f_mask /\ (f_pc = "again" => f_once' = f_once)]_vars

\* a mask with a hole of two cells was filled twice: both cells are on, the
\* cells that were on are on, and the second call changed nothing
C19_Witness ==
    /\ f_pc = "done"
    /\ f_twice = f_once
    /\ \E c, d \in DOMAIN f_mask :
          /\ c # d
          /\ f_mask[c] = 0 /\ f_mask[d] = 0
          /\ f_once[c] = 255 /\ f_once[d] = 255
    /\ \A c \in DOMAIN f_mask : f_mask[c] = 255 => f_once[c] = 255

----------------------------------------------------------------------------
(* C20 *)

\* C20: the combined mapping has exactly the patients of both collections,
\* each with the absolute difference of the first volumes of its two lists;
\* a patient of one collection only is in the missing set of the other
\* collection and not in the combined mapping; patient 7 with 100 and 60
\* gives 40
C20_CombinedOfBothCollections ==
    k_pc = "done" =>
        /\ DOMAIN k_diff = DOMAIN k_iwfs \cap DOMAIN k_dess
        /\ \A pt \in DOMAIN k_diff :
              \/ k_diff[pt] = k_iwfs[pt][1] - k_dess[pt][1] /\ k_diff[pt] >= 0
              \/ k_diff[pt] = k_dess[pt][1] - k_iwfs[pt][1] /\ k_diff[pt] >= 0
        /\ \A pt \in DOMAIN k_iwfs \ DOMAIN k_dess :
              pt \in k_missing_dess /\ pt \notin DOMAIN k_diff
        /\ \A pt \in DOMAIN k_dess \ DOMAIN k_iwfs :
              pt \in k_missing_iwfs /\ pt \notin DOMAIN k_diff
        /\ k_missing_dess \cap DOMAIN k_dess = {}
        /\ k_missing_iwfs \cap DOMAIN k_iwfs = {}
        /\ (7 \in DOMAIN k_diff /\ k_iwfs[7][1] = 100 /\ k_dess[7][1] = 60)
              => k_diff[7] = 40

\* patient 7 has two visits in one collection with 100 first, and 60 in the
\* other; patient 8 is only in the first collection and patient 9 only in the
\* second
C20_Witness ==
    /\ k_pc = "done"
    /\ 7 \in DOMAIN k_iwfs /\ k_iwfs[7] = <<100, 60>>
    /\ 7 \in DOMAIN k_dess /\ k_dess[7] = <<60>>
    /\ k_diff = [pt \in {7} |-> 40]
    /\ k_missing_dess = {8}
    /\ k_missing_iwfs = {9}

\* C21: once the correlation input is built, the correlated patients are the
\* patients of the difference mapping, as many as the intersection and the
\* patients without BML together; a patient without BML has the list [0] and
\* the pair with BML 0 and its own difference, every other patient the first
\* BML volume computed for it; a patient of the BML collection only is in the
\* reported set and in no pair
C21_MissingBmlSetToZero ==
    b_pc = "done" =>
        /\ DOMAIN b_pairs = DOMAIN b_diff
        /\ b_missing_bml = DOMAIN b_diff \ DOMAIN b_bml_read
        /\ Cardinality(DOMAIN b_pairs) =
              Cardinality(DOMAIN b_diff \cap DOMAIN b_bml_read)
                + Cardinality(b_missing_bml)
        /\ b_usable = Cardinality(DOMAIN b_pairs)
        /\ \A p \in b_missing_bml :
              b_bml[p] = <<0>> /\ b_pairs[p] = [x |-> 0, y |-> b_diff[p]]
        /\ \A p \in DOMAIN b_diff \cap DOMAIN b_bml_read :
              /\ b_bml[p] = b_bml_read[p]
              /\ b_pairs[p] = [x |-> b_bml_read[p][1], y |-> b_diff[p]]
        /\ b_missing_preds = DOMAIN b_bml_read \ DOMAIN b_diff
        /\ \A p \in b_missing_preds : p \notin DOMAIN b_pairs

\* patient 7 has a difference and two BML volumes, patient 8 a difference and
\* no BML, patient 9 a BML volume and no difference
C21_Witness ==
    /\ b_pc = "done"
    /\ b_diff = (7 :> 40 @@ 8 :> 40)
    /\ b_bml_read = (7 :> <<30, 0>> @@ 9 :> <<30>>)
    /\ b_missing_bml = {8}
    /\ b_missing_preds = {9}
    /\ b_pairs = (7 :> [x |-> 30, y |-> 40] @@ 8 :> [x |-> 0, y |-> 40])

\* the visit folders of the batch, by the position of the patient and of the
\* visit
VisitsOf(patients) ==
    { <<i, j>> : i \in DOMAIN patients, j \in 1..MaxVisitDirs + 1 } \cap
    { ij \in (DOMAIN patients) \X (1..MaxVisitDirs + 1) :
         ij[2] <= Len(patients[ij[1]].visits) }

\* C22: when make_meta_for_patients has stopped, with or without an error of
\* a mask document, every visit of every patient has been processed
C22_BatchSurvivesDocumentError ==
    t_pc \in {"done", "raised"} => t_seen = VisitsOf(t_patients)

\* C23: the metadata extract_mask_metadata returns has its end slice at or
\* after its start slice and a width and a height above zero
C23_MetadataInvariant ==
    (h_pc = "done" /\ h_out.ok) =>
        /\ h_out.meta.end_slice >= h_out.meta.start_slice
        /\ h_out.meta.image_width > 0
        /\ h_out.meta.image_height > 0

\* q is what is left of l once lines were taken from its front
IsSuffixOf(q, l) ==
    Len(q) <= Len(l) /\ q = SubSeq(l, Len(l) - Len(q) + 1, Len(l))

SplitsInOrder ==
    LET patients == Truncate(p_listing, p_use_first)
    IN  /\ p_result.train \o p_result.test \o p_result.validate = patients
        /\ Len(p_result.train) \in FloorOfProduct(Len(patients), p_weights.train)
        /\ Len(p_result.test) \in FloorOfProduct(Len(patients), p_weights.test)
        /\ \A i, j \in 1..Len(patients) : i # j => patients[i] # patients[j]
        /\ \A pt \in { patients[i] : i \in 1..Len(patients) } :
              Cardinality({ l \in {"train", "test", "validate"} :
                              \E i \in 1..Len(p_result[l]) : p_result[l][i] = pt }) = 1

C26_SliceLoopTerminates ==
    /\ [][(pc = "loop" /\ pc' = "loop") => Len(file_lines') < Len(file_lines)]_vars
    /\ <>(pc \in {"done", "raised"})

\* extract_slice_mask has raised, the loop goes on and lines are left
C26_Witness ==
    /\ pc = "loop"
    /\ last_ret = "raise"
    /\ Len(file_lines) > 0
    /\ Len(file_lines) < Len(prev_lines)

\* C27: every cell that is on in the grid draw_slice_image returns lies on the
\* row height - y and between the columns x1 and x2 of a segment of the
\* slice, for a slice with segments outside the canvas too
C27_OnCellsWithinSegments ==
    (d_pc = "done" /\ d_out.ok) =>
        \A rc \in DOMAIN d_out.image :
            d_out.image[rc] = 255 => CoveredBy(d_slc, d_meta, rc[1], rc[2])

\* the queue starts with a slice-number line and, right after it, the string
\* "{" with nothing around it
BareBracketAhead(q) ==
    /\ Len(q) >= 2
    /\ IsNumberLine(q[1])
    /\ q[2].nl = FALSE /\ q[2].toks = WordToks("{")

PathOf(f) == <<f.patient, f.visit, f.slice_id>>

\* the fragments of the log merged at a path, by their place in the log
MergedAt(p) == { i \in 1..Len(g_log) : PathOf(g_log[i]) = p }

\* two hierarchies hold the same things at the same paths (the equality of
\* dicts, which does not look at the order of the keys)
SameContent(x, y) ==
    \A p \in SeqsUpTo(DictKeys, 4) \ { <<>> } :
        /\ At(x, p).present = At(y, p).present
        /\ At(x, p).present =>
              /\ At(x, p).node.leaf = At(y, p).node.leaf
              /\ At(x, p).node.leaf => At(x, p).node.v = At(y, p).node.v

\* C30: after any sequence of merges of single-image fragments into an empty
\* hierarchy, no merge has failed, the hierarchy holds an image exactly at
\* the (patient, visit, slice) paths merged, the image of the latest
\* fragment merged there, mappings exactly above those paths and nothing
\* below them; and the latest two merges, when at different paths, give the
\* same hierarchy in the other order
C30_HierarchyOfMergedPaths ==
    /\ g_ok
    /\ g_log # <<>> =>
          /\ \A p \in [1..3 -> DictKeys] :
                /\ At(g_result, p).present <=> MergedAt(p) # {}
                /\ MergedAt(p) # {} =>
                      /\ LeafAt(g_result, p)
                      /\ \E i \in MergedAt(p) :
                            /\ \A j \in MergedAt(p) : j <= i
                            /\ At(g_result, p).node.v = g_log[i].im
                /\ \A k \in DictKeys : ~At(g_result, p \o <<k>>).present
          /\ \A p \in SeqsUpTo(DictKeys, 2) \ { <<>> } :
                /\ At(g_result, p).present <=>
                      \E i \in 1..Len(g_log) : SubSeq(PathOf(g_log[i]), 1, Len(p)) = p
                /\ At(g_result, p).present => DictAt(g_result, p)
          /\ (Len(g_log) >= 2
                /\ PathOf(g_log[Len(g_log)]) # PathOf(g_log[Len(g_log) - 1])) =>
                SameContent(g_swapped, g_result)

\* three files: two images of the same slice, then an image of another
\* patient; the first slice holds its second image, in the other order of
\* the latest two merges too
C30_Witness ==
    /\ Len(g_log) = 3
    /\ PathOf(g_log[1]) = <<1, 1, 1>> /\ g_log[1].im = OldValue
    /\ PathOf(g_log[2]) = <<1, 1, 1>> /\ g_log[2].im = NewValue
    /\ PathOf(g_log[3]) = <<2, 1, 2>>
    /\ At(g_result, <<1, 1, 1>>).node.v = NewValue
    /\ LeafAt(g_result, <<2, 1, 2>>)
    /\ LeafAt(g_swapped, <<2, 1, 2>>)

====
